---- MODULE Spec2Model ----
(***************************************************************************)
(* proto-regulate: merging of protobuf descriptors by package              *)
(* (src/src/merge.rs), canonical text generation (src/src/text_gen.rs)     *)
(* and fingerprinting (src/src/lib.rs).                                    *)
(*                                                                         *)
(* Conventions of the model                                                *)
(*  - Option<T> is a sequence of length <= 1: None = <<>>, Some(x) = <<x>>.*)
(*  - Result<T> is [ok |-> TRUE, val |-> v] or [ok |-> FALSE, err |-> e].  *)
(*  - An identifier, path or option value is a TLA+ string; the byte order *)
(*    of Rust's str::cmp is given by the table StrOrder.                   *)
(*  - A dotted string (package, type_name, extendee) is the sequence of    *)
(*    its components, i.e. the result of split('.'): "foo.bar" is          *)
(*    <<"foo","bar">>, ".foo.Bar" is <<"","foo","Bar">>, "" is <<"">>.     *)
(*  - The output text is the sequence of its lines; a line is              *)
(*    [sp |-> leading spaces, t |-> the tokens printed on it]. Two texts   *)
(*    are byte-identical iff the line sequences are equal.                 *)
(***************************************************************************)
EXTENDS Integers, Sequences, FiniteSets, TLC

None == <<>>
Some(x) == <<x>>
IsSome(o) == o # <<>>
UnwrapOr(o, d) == IF o = <<>> THEN d ELSE o[1]

Ok(v) == [ok |-> TRUE, val |-> v]
Err(e) == [ok |-> FALSE, err |-> e]

Min(a, b) == IF a < b THEN a ELSE b

Range(s) == {s[i] : i \in 1..Len(s)}

(***************************************************************************)
(* Ordering of strings (str::cmp, byte-wise) on the strings the model      *)
(* uses, in ascending order.                                               *)
(***************************************************************************)
StrOrder ==
    << "", "A", "B", "Blue", "Ext", "Get", "M", "Put", "Svc", "T",
       "a", "a.proto", "b", "b.proto", "bar", "c.proto",
       "cc_enable_arenas", "cc_generic_services", "csharp_namespace",
       "foo", "go_package", "java_generic_services", "java_multiple_files",
       "java_outer_classname", "java_package", "java_string_check_utf8",
       "key", "objc_class_prefix", "optimize_for", "php_class_prefix",
       "php_metadata_namespace", "php_namespace", "py_generic_services",
       "q\"x", "ruby_package", "swift_prefix", "value", "x", "y" >>

Rank(s) == CHOOSE i \in 1..Len(StrOrder) : StrOrder[i] = s

StrLt(a, b) == Rank(a) < Rank(b)

\* Lexicographic order on integer tuples (a proper prefix is smaller).
KeyLt(a, b) ==
    \E k \in 1..(Min(Len(a), Len(b)) + 1) :
        /\ \A j \in 1..(k - 1) : a[j] = b[j]
        /\ \/ k <= Len(a) /\ k <= Len(b) /\ a[k] < b[k]
           \/ k = Len(a) + 1 /\ k <= Len(b)

\* Sort key of a dotted string: component ranks, closed by 0 ('.' sorts
\* below every identifier character, so a proper prefix is smaller).
DottedKey(d) == [i \in 1..(Len(d) + 1) |-> IF i <= Len(d) THEN Rank(d[i]) ELSE 0]

\* Sort key of an Option<dotted string>: None < Some(_).
OptDottedKey(o) == IF o = None THEN <<0>> ELSE <<1>> \o DottedKey(o[1])

(***************************************************************************)
(* slice::sort_by / sort_by_key: a stable sort. keys[i] is the integer     *)
(* tuple key of s[i].                                                      *)
(***************************************************************************)
SortPos(keys, i) ==
    Cardinality({j \in 1..Len(keys) :
                    \/ KeyLt(keys[j], keys[i])
                    \/ keys[j] = keys[i] /\ j < i}) + 1

StableSort(s, keys) ==
    [p \in 1..Len(s) |-> s[CHOOSE i \in 1..Len(s) : SortPos(keys, i) = p]]

NameKeys(s) == [i \in 1..Len(s) |-> <<Rank(s[i].name)>>]
NumberKeys(s) == [i \in 1..Len(s) |-> <<s[i].number>>]

SortByName(s) == StableSort(s, NameKeys(s))
SortByNumber(s) == StableSort(s, NumberKeys(s))

(***************************************************************************)
(* Descriptors (protobuf::descriptor): the fields the program reads.       *)
(***************************************************************************)
EmptyFile ==
    [ syntax |-> None, package |-> None,
      dependency |-> <<>>, public_dependency |-> <<>>, weak_dependency |-> <<>>,
      message_type |-> <<>>, enum_type |-> <<>>, service |-> <<>>,
      extension |-> <<>>, options |-> None ]

EmptyFileOptions ==
    [ java_package |-> None, java_outer_classname |-> None,
      java_multiple_files |-> None, java_string_check_utf8 |-> None,
      go_package |-> None, optimize_for |-> None, cc_enable_arenas |-> None,
      cc_generic_services |-> None, java_generic_services |-> None,
      py_generic_services |-> None, objc_class_prefix |-> None,
      csharp_namespace |-> None, swift_prefix |-> None,
      php_class_prefix |-> None, php_namespace |-> None,
      php_metadata_namespace |-> None, ruby_package |-> None ]

EmptyMessage ==
    [ name |-> "", field |-> <<>>, nested_type |-> <<>>, enum_type |-> <<>>,
      extension |-> <<>>, oneof_decl |-> <<>>, extension_range |-> <<>>,
      reserved_range |-> <<>>, reserved_name |-> <<>>, options |-> None ]

EmptyMessageOptions ==
    [ message_set_wire_format |-> None, no_standard_descriptor_accessor |-> None,
      deprecated |-> None, map_entry |-> None ]

EmptyField ==
    [ name |-> "", number |-> 0, label |-> None, type |-> None,
      type_name |-> None, oneof_index |-> None, proto3_optional |-> None,
      default_value |-> None, extendee |-> None, options |-> None ]

EmptyFieldOptions ==
    [ packed |-> None, deprecated |-> None, lazy |-> None, weak |-> None,
      ctype |-> None, jstype |-> None ]

EmptyEnumOptions == [ allow_alias |-> None, deprecated |-> None ]

EmptyEnum ==
    [ name |-> "", value |-> <<>>, reserved_range |-> <<>>,
      reserved_name |-> <<>>, options |-> None ]

EmptyService == [ name |-> "", method |-> <<>>, options |-> None ]

EmptyMethod ==
    [ name |-> "", input_type |-> None, output_type |-> None,
      client_streaming |-> FALSE, server_streaming |-> FALSE, options |-> None ]

(***************************************************************************)
(* TextGenerator (text_gen.rs). The generator g is the struct              *)
(* [options, output, indent_level, current_message, current_file]; every   *)
(* write_* method maps g to the g it leaves behind.                        *)
(***************************************************************************)
DefaultOptions ==
    [ indent_size |-> 2, sort_messages |-> TRUE, sort_enums |-> TRUE,
      sort_services |-> TRUE ]

NewGenerator(options) ==
    [ options |-> options, output |-> <<>>, indent_level |-> 0,
      current_message |-> None, current_file |-> None ]

\* writeln!(self.output, ...) at the start of a line, no write_indent before it
WriteLine(g, t) == [g EXCEPT !.output = Append(@, [sp |-> 0, t |-> t])]

\* write_indent() followed by the pieces of one line
WriteIndented(g, t) ==
    [g EXCEPT !.output =
        Append(@, [sp |-> g.indent_level * g.options.indent_size, t |-> t])]

\* write_newline() at the start of a line: an empty line
WriteNewline(g) == [g EXCEPT !.output = Append(@, [sp |-> 0, t |-> <<>>])]

Indent(g) == [g EXCEPT !.indent_level = @ + 1]

\* saturating_sub(1)
Dedent(g) == [g EXCEPT !.indent_level = IF @ = 0 THEN 0 ELSE @ - 1]

BoolStr(b) == IF b THEN "true" ELSE "false"

\* escape_string on the strings of the model: only "q\"x" holds a character
\* that is escaped.
EscapeString(s) == IF s = "q\"x" THEN "q\\\"x" ELSE s

\* escape_bytes on the UTF-8 bytes of the strings of the model (all printable
\* ASCII): the same five escapes.
EscapeBytes(s) == IF s = "q\"x" THEN "q\\\"x" ELSE s

\* trim_start_matches('.') on a dotted string: leading empty components go
FormatTypeName(d) ==
    LET ks == {k \in 0..(Len(d) - 1) : \A j \in 1..k : d[j] = ""}
        lead == CHOOSE k \in ks : \A m \in ks : m <= k
    IN  SubSeq(d, lead + 1, Len(d))

\* s.iter().find(test)
FindFirst(s, Test(_)) ==
    LET idx == {i \in 1..Len(s) : Test(s[i])}
    IN  IF idx = {} THEN None
        ELSE Some(s[CHOOSE i \in idx : \A j \in idx : i <= j])

\* The keys of a BTreeMap/BTreeSet of dotted strings, in iteration order.
SortedDotted(S) ==
    [p \in 1..Cardinality(S) |->
        CHOOSE e \in S :
            Cardinality({e2 \in S : KeyLt(DottedKey(e2), DottedKey(e))}) = p - 1]

(* ---------------------------- imports --------------------------------- *)
\* rank closure of write_imports
ImportRank(imp) == IF imp.is_public THEN 1 ELSE IF imp.is_weak THEN 2 ELSE 0

ImportKind(imp) == IF imp.is_public THEN "public" ELSE IF imp.is_weak THEN "weak" ELSE ""

\* the (path, is_public, is_weak) vector after the two marking loops; an index
\* that is negative (huge as usize) or past the end marks nothing
MarkedImports(file) ==
    [i \in 1..Len(file.dependency) |->
        [ path |-> file.dependency[i],
          is_public |-> \E k \in 1..Len(file.public_dependency) :
                            file.public_dependency[k] = i - 1,
          is_weak |-> \E k \in 1..Len(file.weak_dependency) :
                            file.weak_dependency[k] = i - 1 ]]

\* the sort of write_imports with the path as its only key
SortImportsByPath(imports) ==
    StableSort(imports, [i \in 1..Len(imports) |-> <<Rank(imports[i].path)>>])

SortImports(imports) ==
    StableSort(imports,
        [i \in 1..Len(imports) |-> <<ImportRank(imports[i]), Rank(imports[i].path)>>])

\* the `for (path, is_public, is_weak) in imports` loop over the sorted vector
ImportLines(imports) ==
    [i \in 1..Len(imports) |->
        [sp |-> 0, t |-> <<"import", ImportKind(imports[i]), imports[i].path>>]]

WriteImports(g, file) ==
    IF /\ file.dependency = <<>>
       /\ file.public_dependency = <<>>
       /\ file.weak_dependency = <<>>
    THEN g
    ELSE WriteNewline([g EXCEPT !.output =
                          @ \o ImportLines(SortImports(MarkedImports(file)))])

(* -------------------------- file options ------------------------------ *)
OptimizeModeName(v) ==
    CASE v = 1 -> "SPEED" [] v = 2 -> "CODE_SIZE" [] v = 3 -> "LITE_RUNTIME"
      [] OTHER -> "SPEED"

\* opts.push(format!("option <key> = \"{}\";", escape_string(v)))
StringOption(key, v) ==
    IF v = None THEN <<>> ELSE << <<"option", key, "\"", EscapeString(v[1])>> >>

\* opts.push(format!("option <key> = {v};"))
BoolOption(key, v) ==
    IF v = None THEN <<>> ELSE << <<"option", key, "", BoolStr(v[1])>> >>

\* the opts vector of write_file_options before opts.sort(), in push order
FileOptionLines(o) ==
    StringOption("java_package", o.java_package)
    \o StringOption("java_outer_classname", o.java_outer_classname)
    \o BoolOption("java_multiple_files", o.java_multiple_files)
    \o BoolOption("java_string_check_utf8", o.java_string_check_utf8)
    \o StringOption("go_package", o.go_package)
    \o (IF o.optimize_for = None THEN <<>>
        ELSE << <<"option", "optimize_for", "", OptimizeModeName(o.optimize_for[1])>> >>)
    \o BoolOption("cc_enable_arenas", o.cc_enable_arenas)
    \o BoolOption("cc_generic_services", o.cc_generic_services)
    \o BoolOption("java_generic_services", o.java_generic_services)
    \o BoolOption("py_generic_services", o.py_generic_services)
    \o StringOption("objc_class_prefix", o.objc_class_prefix)
    \o StringOption("csharp_namespace", o.csharp_namespace)
    \o StringOption("swift_prefix", o.swift_prefix)
    \o StringOption("php_class_prefix", o.php_class_prefix)
    \o StringOption("php_namespace", o.php_namespace)
    \o StringOption("php_metadata_namespace", o.php_metadata_namespace)
    \o StringOption("ruby_package", o.ruby_package)

\* opts.sort(): the lines all start with "option <key> = " and the keys are
\* distinct, so the order of the lines is the order of the keys
SortOptionLines(opts) ==
    StableSort(opts, [i \in 1..Len(opts) |-> <<Rank(opts[i][2])>>])

\* the sorted opts one per line, and write_newline() if there is any
WriteOptionLines(g, opts) ==
    IF opts = <<>> THEN g
    ELSE WriteNewline([g EXCEPT !.output =
                          @ \o [i \in 1..Len(opts) |-> [sp |-> 0, t |-> opts[i]]]])

WriteFileOptions(g, file) ==
    IF file.options = None THEN g
    ELSE WriteOptionLines(g, SortOptionLines(FileOptionLines(file.options[1])))

(* ------------------------------ fields -------------------------------- *)
\* The largest field number, printed as "max" (text_gen.rs lines 456, 612, 1093)
MaxFieldNumber == 536870911

\* field_type_to_string, on the 18 Type values
FieldTypeToString(t) ==
    CASE t = "TYPE_DOUBLE" -> "double"     [] t = "TYPE_FLOAT" -> "float"
      [] t = "TYPE_INT64" -> "int64"       [] t = "TYPE_UINT64" -> "uint64"
      [] t = "TYPE_INT32" -> "int32"       [] t = "TYPE_FIXED64" -> "fixed64"
      [] t = "TYPE_FIXED32" -> "fixed32"   [] t = "TYPE_BOOL" -> "bool"
      [] t = "TYPE_STRING" -> "string"     [] t = "TYPE_GROUP" -> "group"
      [] t = "TYPE_MESSAGE" -> "message"   [] t = "TYPE_BYTES" -> "bytes"
      [] t = "TYPE_UINT32" -> "uint32"     [] t = "TYPE_ENUM" -> "enum"
      [] t = "TYPE_SFIXED32" -> "sfixed32" [] t = "TYPE_SFIXED64" -> "sfixed64"
      [] t = "TYPE_SINT32" -> "sint32"     [] t = "TYPE_SINT64" -> "sint64"
      [] OTHER -> "unknown"

IsMapEntry(message) ==
    /\ message.options # None
    /\ UnwrapOr(message.options[1].map_entry, FALSE)

\* type_name.split('.').next_back()
LastComponent(d) == d[Len(d)]

GetGroupMessageNames(message) ==
    {LastComponent(message.field[i].type_name[1]) :
        i \in {j \in 1..Len(message.field) :
                  /\ message.field[j].type = Some("TYPE_GROUP")
                  /\ message.field[j].type_name # None}}

\* the key_type / value_type blocks of get_map_field_info: None stands for
\* the early `return None` (no type, or a composite type without type_name)
MapSideType(f) ==
    IF f.type = None THEN None
    ELSE IF f.type[1] \in {"TYPE_MESSAGE", "TYPE_ENUM"}
         THEN IF f.type_name = None THEN None
              ELSE Some(FormatTypeName(f.type_name[1]))
         ELSE Some(<<FieldTypeToString(f.type[1])>>)
\* the end of get_map_field_info: both sides' types, or the early `return None`
MapTypes(key_type, value_type) ==
    IF key_type = None \/ value_type = None THEN None
    ELSE Some([key_type |-> key_type[1], value_type |-> value_type[1]])

\* key_field / value_field are the `find(|f| f.name() == ...)?` results
MapSides(key_field, value_field) ==
    IF key_field = None \/ value_field = None THEN None
    ELSE MapTypes(MapSideType(key_field[1]), MapSideType(value_field[1]))

\* entry is the nested message found by the field's type name
MapEntryInfo(entry) ==
    IF entry = None THEN None
    ELSE IF ~IsMapEntry(entry[1]) THEN None
    ELSE IF Len(entry[1].field) # 2 THEN None
    ELSE MapSides(FindFirst(entry[1].field, LAMBDA f : f.name = "key"),
                  FindFirst(entry[1].field, LAMBDA f : f.name = "value"))

GetMapFieldInfo(g, field) ==
    IF field.label # Some("LABEL_REPEATED") THEN None
    ELSE IF field.type # Some("TYPE_MESSAGE") THEN None
    ELSE IF field.type_name = None THEN None
    ELSE IF g.current_message = None THEN None
    ELSE MapEntryInfo(FindFirst(g.current_message[1].nested_type,
                          LAMBDA m : m.name = LastComponent(field.type_name[1])))

\* val.parse::<i32>() on the default_value strings of the model
DecimalStrings == <<"0", "1", "2", "3">>

ParseI32(s) ==
    IF \E i \in 1..Len(DecimalStrings) : DecimalStrings[i] = s
    THEN Some((CHOOSE i \in 1..Len(DecimalStrings) : DecimalStrings[i] = s) - 1)
    ELSE None

NormalizeFloatDefault(val) ==
    CASE val \in {"Infinity", "+Infinity", "+Inf", "Inf"} -> "inf"
      [] val \in {"-Infinity", "-Inf"} -> "-inf"
      [] val \in {"NaN", "nan"} -> "nan"
      [] OTHER -> val

\* `for v in &en.value { if v.number() == number { return Some(name) } }`
\* followed by `return None`; found is the Option of the enum
ValueNameIn(found, number) ==
    IF found = None THEN None
    ELSE IF \E i \in 1..Len(found[1].value) : found[1].value[i].number = number
    THEN Some(found[1].value[
             CHOOSE i \in 1..Len(found[1].value) :
                 /\ found[1].value[i].number = number
                 /\ \A j \in 1..(i - 1) : found[1].value[j].number # number].name)
    ELSE None

\* the last component: the enum of that name in current_msg, else the
\* top-level enum of that name
EnumAtLast(inner, top, number) ==
    IF inner # None THEN ValueNameIn(inner, number) ELSE ValueNameIn(top, number)

RECURSIVE EnumTraverse(_, _, _, _, _, _)
RECURSIVE EnumDescend(_, _, _, _, _)

\* the `while idx < comps.len()` loop of enum_number_to_name; idx is 0-based
EnumTraverse(file, comps, idx, current_messages, current_msg, number) ==
    IF idx >= Len(comps) THEN None
    ELSE IF idx = Len(comps) - 1
    THEN EnumAtLast(IF current_msg = None THEN None
                    ELSE FindFirst(current_msg[1].enum_type,
                                   LAMBDA en : en.name = comps[idx + 1]),
                    FindFirst(file.enum_type, LAMBDA en : en.name = comps[idx + 1]),
                    number)
    ELSE EnumDescend(file, comps, idx,
                     FindFirst(current_messages, LAMBDA m : m.name = comps[idx + 1]),
                     number)

\* `let m = found?; current_msg = Some(m); current_messages = &m.nested_type`
EnumDescend(file, comps, idx, found, number) ==
    IF found = None THEN None
    ELSE EnumTraverse(file, comps, idx + 1, found[1].nested_type, found, number)

\* enum_number_to_name once file, comps and pkg_len are computed; top is the
\* top-level enum named comps[pkg_len], if pkg_len < comps.len() and it exists
EnumLookup(file, comps, pkg_len, top, number) ==
    IF pkg_len > Len(comps) THEN None
    ELSE IF top # None
    THEN IF pkg_len = Len(comps) - 1 THEN ValueNameIn(top, number) ELSE None
    ELSE EnumTraverse(file, comps, pkg_len, file.message_type, None, number)

\* pkg.split('.').count(), 0 for the empty package
PackageLen(file) ==
    IF UnwrapOr(file.package, <<"">>) = <<"">> THEN 0 ELSE Len(file.package[1])

TopLevelEnum(file, comps, pkg_len) ==
    IF pkg_len < Len(comps)
    THEN FindFirst(file.enum_type, LAMBDA en : en.name = comps[pkg_len + 1])
    ELSE None

EnumNumberToName(g, fq_type_name, number) ==
    IF g.current_file = None THEN None
    ELSE EnumLookup(g.current_file[1], FormatTypeName(fq_type_name),
                    PackageLen(g.current_file[1]),
                    TopLevelEnum(g.current_file[1], FormatTypeName(fq_type_name),
                                 PackageLen(g.current_file[1])),
                    number)

CTypeName(v) ==
    CASE v = 0 -> "STRING" [] v = 1 -> "CORD" [] v = 2 -> "STRING_PIECE"
      [] OTHER -> "STRING"

JSTypeName(v) ==
    CASE v = 0 -> "JS_NORMAL" [] v = 1 -> "JS_STRING" [] v = 2 -> "JS_NUMBER"
      [] OTHER -> "JS_NORMAL"

\* the TYPE_ENUM arm: the value name for a numeric default, else the text
EnumDefault(g, field, num) ==
    IF num # None /\ field.type_name # None
    THEN UnwrapOr(EnumNumberToName(g, field.type_name[1], num[1]),
                  field.default_value[1])
    ELSE field.default_value[1]

\* the `default = ...` entry of write_field_options; <<key, quote, value>>
DefaultOption(g, field) ==
    IF field.default_value = None \/ field.type = None THEN <<>>
    ELSE CASE field.type[1] = "TYPE_STRING" ->
                << <<"default", "\"", EscapeString(field.default_value[1])>> >>
           [] field.type[1] = "TYPE_BYTES" ->
                << <<"default", "\"", EscapeBytes(field.default_value[1])>> >>
           [] field.type[1] = "TYPE_ENUM" ->
                << <<"default", "", EnumDefault(g, field, ParseI32(field.default_value[1]))>> >>
           [] field.type[1] \in {"TYPE_FLOAT", "TYPE_DOUBLE"} ->
                << <<"default", "", NormalizeFloatDefault(field.default_value[1])>> >>
           [] OTHER -> << <<"default", "", field.default_value[1]>> >>

\* `if options.<key>() { opts.push("<key> = true") }`
FlagOption(key, v) == IF v = Some(TRUE) THEN << <<key, "", "true">> >> ELSE <<>>

\* write_field_options: the entries printed between " [" and "]", in order;
\* <<>> when nothing is printed
FieldOptions(g, field) ==
    IF field.options = None THEN <<>>
    ELSE (IF field.options[1].packed = None THEN <<>>
          ELSE << <<"packed", "", BoolStr(field.options[1].packed[1])>> >>)
         \o FlagOption("deprecated", field.options[1].deprecated)
         \o FlagOption("lazy", field.options[1].lazy)
         \o FlagOption("weak", field.options[1].weak)
         \o (IF field.options[1].ctype = None THEN <<>>
             ELSE << <<"ctype", "", CTypeName(field.options[1].ctype[1])>> >>)
         \o (IF field.options[1].jstype = None THEN <<>>
             ELSE << <<"jstype", "", JSTypeName(field.options[1].jstype[1])>> >>)
         \o DefaultOption(g, field)

\* the label printed by write_field, "" when none is
FieldLabel(field, syntax) ==
    IF field.label = Some("LABEL_REPEATED") THEN "repeated"
    ELSE IF field.label = Some("LABEL_REQUIRED") /\ syntax = "proto2" THEN "required"
    ELSE IF /\ field.label = Some("LABEL_OPTIONAL")
            /\ (syntax = "proto2" \/ UnwrapOr(field.proto3_optional, FALSE))
         THEN "optional"
    ELSE ""

\* the type printed by write_field for a field that is no group: a dotted
\* string, None when nothing is printed
FieldTypeText(field) ==
    IF field.type = None THEN None
    ELSE IF field.type[1] \in {"TYPE_MESSAGE", "TYPE_ENUM"}
         THEN IF field.type_name = None THEN None
              ELSE Some(FormatTypeName(field.type_name[1]))
         ELSE Some(<<FieldTypeToString(field.type[1])>>)

RECURSIVE WriteField(_, _, _)
RECURSIVE WriteFields(_, _, _, _)
RECURSIVE WriteGroupFields(_, _, _)

\* `for f in fields { self.write_field(f, syntax)?; }` from index i on
WriteFields(g, fields, i, syntax) ==
    IF i > Len(fields) THEN g
    ELSE WriteFields(WriteField(g, fields[i], syntax), fields, i + 1, syntax)

\* the name printed after "group": the last component of type_name, else the
\* field name
GroupName(field) ==
    IF field.type_name # None THEN LastComponent(field.type_name[1]) ELSE field.name

\* group_fields of write_field: the nested message of current_message that
\* carries the group's name
GroupMessage(g, field) ==
    IF g.current_message # None /\ field.type_name # None
    THEN FindFirst(g.current_message[1].nested_type,
                   LAMBDA m : m.name = GroupName(field))
    ELSE None

\* `if let Some(fields) = group_fields { indent; write_field each; dedent }`
WriteGroupFields(g, group_message, syntax) ==
    IF group_message = None THEN g
    ELSE Dedent(WriteFields(Indent(g), group_message[1].field, 1, syntax))

\* write_field, given the answer map_info of get_map_field_info and the
\* entries field_options that write_field_options prints for the field
WriteFieldAs(g, field, syntax, map_info, field_options) ==
    IF map_info # None
    THEN WriteIndented(g, <<"map", map_info[1].key_type, map_info[1].value_type,
                            field.name, field.number, field_options>>)
    ELSE IF field.type = Some("TYPE_GROUP")
    THEN WriteIndented(
             WriteGroupFields(
                 WriteIndented(g, <<"group", FieldLabel(field, syntax), GroupName(field),
                                    field.number, field_options>>),
                 GroupMessage(g, field), syntax),
             <<"}">>)
    ELSE WriteIndented(g, <<"field", FieldLabel(field, syntax), FieldTypeText(field),
                            field.name, field.number, field_options>>)

WriteField(g, field, syntax) ==
    WriteFieldAs(g, field, syntax, GetMapFieldInfo(g, field), FieldOptions(g, field))

(* ------------------------------- enums -------------------------------- *)
\* `if cond { self.write_indent(); writeln!(...) }`
WriteIf(cond, g, t) == IF cond THEN WriteIndented(g, t) ELSE g

\* one entry of a printed range list: <<start>>, <<start, "max">> or
\* <<start, "to", last>>
EnumRangeText(r) ==
    IF r.start = r.end THEN <<r.start>>
    ELSE IF r.end = MaxFieldNumber THEN <<r.start, "max">>
    ELSE <<r.start, "to", r.end>>

WriteEnumReserved(g, enum_type) ==
    WriteIf(enum_type.reserved_name # <<>>,
        WriteIf(enum_type.reserved_range # <<>>, g,
            <<"reserved", "ranges",
              [i \in 1..Len(enum_type.reserved_range) |->
                  EnumRangeText(enum_type.reserved_range[i])]>>),
        <<"reserved", "names", enum_type.reserved_name>>)

WriteEnumOptions(g, enum_type) ==
    IF enum_type.options = None THEN g
    ELSE WriteIf(enum_type.options[1].deprecated = Some(TRUE),
             WriteIf(enum_type.options[1].allow_alias = Some(TRUE), g,
                 <<"option", "allow_alias", "", "true">>),
             <<"option", "deprecated", "", "true">>)

\* write_enum_value: <NAME> = <number>[ [deprecated = true]];
EnumValueTokens(value) ==
    <<"value", value.name, value.number,
      value.options # None /\ value.options[1].deprecated = Some(TRUE)>>

\* `for value in values { self.write_enum_value(value)?; }`
WriteEnumValues(g, values) ==
    [g EXCEPT !.output = @ \o
        [i \in 1..Len(values) |->
            [sp |-> g.indent_level * g.options.indent_size,
             t |-> EnumValueTokens(values[i])]]]

WriteEnum(g, enum_type) ==
    WriteIndented(
        Dedent(
            WriteEnumReserved(
                WriteEnumValues(
                    WriteEnumOptions(
                        Indent(WriteIndented(g, <<"enum", enum_type.name>>)),
                        enum_type),
                    SortByNumber(enum_type.value)),
                enum_type)),
        <<"}">>)

\* `if cond { self.write_newline() }`
NewlineIf(cond, g) == IF cond THEN WriteNewline(g) ELSE g

RECURSIVE WriteEnumList(_, _, _, _)
\* `for e in enums { self.write_enum(e)?; [self.write_newline();] }`
WriteEnumList(g, enums, i, newline) ==
    IF i > Len(enums) THEN g
    ELSE WriteEnumList(NewlineIf(newline, WriteEnum(g, enums[i])), enums, i + 1, newline)

WriteEnums(g, file) ==
    WriteEnumList(g,
                  IF g.options.sort_enums THEN SortByName(file.enum_type)
                  ELSE file.enum_type,
                  1, TRUE)

(* ------------------------------ messages ------------------------------ *)
WriteMessageOptions(g, message) ==
    IF message.options = None THEN g
    ELSE WriteIf(message.options[1].deprecated = Some(TRUE),
             WriteIf(message.options[1].no_standard_descriptor_accessor = Some(TRUE),
                 WriteIf(message.options[1].message_set_wire_format = Some(TRUE), g,
                     <<"option", "message_set_wire_format", "", "true">>),
                 <<"option", "no_standard_descriptor_accessor", "", "true">>),
             <<"option", "deprecated", "", "true">>)

\* a message range printed like an enum's, with its end as the last number
MessageRangeTextInclusive(r) ==
    IF r.start + 1 = r.end THEN <<r.start>>
    ELSE IF r.end = MaxFieldNumber THEN <<r.start, "max">>
    ELSE <<r.start, "to", r.end>>

\* a half-open range [start, end) as printed by write_message / write_reserved
MessageRangeText(r) ==
    IF r.start + 1 = r.end THEN <<r.start>>
    ELSE IF r.end - 1 = MaxFieldNumber THEN <<r.start, "max">>
    ELSE <<r.start, "to", r.end - 1>>

WriteExtensionRanges(g, message) ==
    [g EXCEPT !.output = @ \o
        [i \in 1..Len(message.extension_range) |->
            [sp |-> g.indent_level * g.options.indent_size,
             t |-> <<"extensions", MessageRangeText(message.extension_range[i])>>]]]

WriteReserved(g, message) ==
    WriteIf(message.reserved_name # <<>>,
        WriteIf(message.reserved_range # <<>>, g,
            <<"reserved", "ranges",
              [i \in 1..Len(message.reserved_range) |->
                  MessageRangeText(message.reserved_range[i])]>>),
        <<"reserved", "names", message.reserved_name>>)

\* the filter of write_message for regular_fields
IsRegularField(f) == f.oneof_index = None \/ UnwrapOr(f.proto3_optional, FALSE)

\* oneof_fields[idx] of write_message; idx is 0-based
OneofFields(message, idx) ==
    SelectSeq(message.field,
              LAMBDA f : /\ f.oneof_index # None
                         /\ ~UnwrapOr(f.proto3_optional, FALSE)
                         /\ f.oneof_index[1] = idx)

WriteOneof(g, oneof, fields, syntax) ==
    WriteIndented(
        Dedent(WriteFields(Indent(WriteIndented(g, <<"oneof", oneof.name>>)),
                           SortByNumber(fields), 1, syntax)),
        <<"}">>)

\* `if !oneof_fields[idx].is_empty() { self.write_oneof(...)?; }`
WriteOneofIf(g, oneof, fields, syntax) ==
    IF fields # <<>> THEN WriteOneof(g, oneof, fields, syntax) ELSE g

RECURSIVE WriteOneofs(_, _, _, _)
\* `for (idx, oneof) in message.oneof_decl.iter().enumerate()`; i is 1-based
WriteOneofs(g, message, i, syntax) ==
    IF i > Len(message.oneof_decl) THEN g
    ELSE WriteOneofs(WriteOneofIf(g, message.oneof_decl[i],
                                  OneofFields(message, i - 1), syntax),
                     message, i + 1, syntax)

RECURSIVE WriteMessage(_, _, _)
RECURSIVE WriteNestedMessages(_, _, _, _, _)

\* the nested_type loop body without the group_messages test
WriteNestedMessageAlways(g, nested_msg, group_messages, syntax) ==
    WriteMessage(g, nested_msg, syntax)

\* `if !group_messages.contains(nested_msg.name()) { self.write_message(..)?; }`
WriteNestedMessage(g, nested_msg, group_messages, syntax) ==
    IF nested_msg.name \notin group_messages
    THEN WriteMessage(g, nested_msg, syntax)
    ELSE g

\* the nested_type loop of write_message
WriteNestedMessages(g, nested, i, group_messages, syntax) ==
    IF i > Len(nested) THEN g
    ELSE WriteNestedMessages(WriteNestedMessage(g, nested[i], group_messages, syntax),
                             nested, i + 1, group_messages, syntax)

\* write_message without the sort of regular_fields by number
WriteMessageFieldsInOrder(g, message, syntax) ==
    WriteFields(
        [WriteOneofs(
            WriteFields([g EXCEPT !.current_message = Some(message)],
                        SelectSeq(message.field, IsRegularField),
                        1, syntax),
            message, 1, syntax)
         EXCEPT !.current_message = g.current_message],
        message.extension, 1, syntax)

\* write_message from `let saved_message = self.current_message.take()` to
\* the loop over message.extension; g is the generator at that point, so
\* g.current_message is saved_message
WriteMessageFields(g, message, syntax) ==
    WriteFields(
        [WriteOneofs(
            WriteFields([g EXCEPT !.current_message = Some(message)],
                        SortByNumber(SelectSeq(message.field, IsRegularField)),
                        1, syntax),
            message, 1, syntax)
         EXCEPT !.current_message = g.current_message],
        message.extension, 1, syntax)

\* write_message with the reserved statements written before the fields
WriteMessageReservedFirst(g, message, syntax) ==
    IF IsMapEntry(message) THEN g
    ELSE WriteIndented(
             Dedent(
                 WriteExtensionRanges(
                     WriteMessageFields(
                         WriteReserved(
                             WriteNestedMessages(
                                 WriteEnumList(
                                     WriteMessageOptions(
                                         Indent(WriteIndented(g, <<"message", message.name>>)),
                                         message),
                                     message.enum_type, 1, FALSE),
                                 message.nested_type, 1,
                                 GetGroupMessageNames(message), syntax),
                             message),
                         message, syntax),
                     message)),
             <<"}">>)

WriteMessage(g, message, syntax) ==
    IF IsMapEntry(message) THEN g
    ELSE WriteIndented(
             Dedent(
                 WriteReserved(
                     WriteExtensionRanges(
                         WriteMessageFields(
                             WriteNestedMessages(
                                 WriteEnumList(
                                     WriteMessageOptions(
                                         Indent(WriteIndented(g, <<"message", message.name>>)),
                                         message),
                                     message.enum_type, 1, FALSE),
                                 message.nested_type, 1,
                                 GetGroupMessageNames(message), syntax),
                             message, syntax),
                         message),
                     message)),
             <<"}">>)

RECURSIVE WriteMessageList(_, _, _, _)
WriteMessageList(g, messages, i, syntax) ==
    IF i > Len(messages) THEN g
    ELSE WriteMessageList(WriteNewline(WriteMessage(g, messages[i], syntax)),
                          messages, i + 1, syntax)

\* write_messages without the sort_messages branch
WriteMessagesInOrder(g, file, syntax) ==
    WriteMessageList(g, file.message_type, 1, syntax)

WriteMessages(g, file, syntax) ==
    WriteMessageList(g,
                     IF g.options.sort_messages THEN SortByName(file.message_type)
                     ELSE file.message_type,
                     1, syntax)

(* ------------------------------ services ------------------------------ *)
TypeText(o) == IF o = None THEN None ELSE Some(FormatTypeName(o[1]))

\* "rpc <name>(<stream> <input>) returns (<stream> <output>)"
MethodHead(method) ==
    <<"rpc", method.name, method.client_streaming, TypeText(method.input_type),
      method.server_streaming, TypeText(method.output_type)>>

\* write_method: the line(s) of one rpc
WriteMethod(g, method) ==
    IF method.options # None /\ method.options[1].deprecated = Some(TRUE)
    THEN WriteIndented(
             Dedent(WriteIndented(
                        Indent(WriteIndented(g, MethodHead(method) \o <<"{">>)),
                        <<"option", "deprecated", "", "true">>)),
             <<"}", ";">>)
    ELSE WriteIndented(g, MethodHead(method) \o <<";">>)

RECURSIVE WriteMethods(_, _, _)
WriteMethods(g, methods, i) ==
    IF i > Len(methods) THEN g
    ELSE WriteMethods(WriteMethod(g, methods[i]), methods, i + 1)

WriteServiceOptions(g, service) ==
    WriteIf(service.options # None /\ service.options[1].deprecated = Some(TRUE), g,
            <<"option", "deprecated", "", "true">>)

WriteService(g, service) ==
    WriteIndented(
        Dedent(WriteMethods(
                   WriteServiceOptions(
                       Indent(WriteIndented(g, <<"service", service.name>>)), service),
                   SortByName(service.method), 1)),
        <<"}">>)

RECURSIVE WriteServiceList(_, _, _)
WriteServiceList(g, services, i) ==
    IF i > Len(services) THEN g
    ELSE WriteServiceList(WriteNewline(WriteService(g, services[i])), services, i + 1)

WriteServices(g, file) ==
    WriteServiceList(g,
                     IF g.options.sort_services THEN SortByName(file.service)
                     ELSE file.service,
                     1)

(* ----------------------------- extensions ----------------------------- *)
\* ext.extendee.clone().unwrap_or_default()
ExtendeeKey(ext) == UnwrapOr(ext.extendee, <<"">>)

\* one `extend <extendee> { ... }` block
WriteExtendBlock(g, extendee, fields, syntax) ==
    WriteIndented(
        Dedent(WriteFields(Indent(WriteIndented(g, <<"extend", FormatTypeName(extendee)>>)),
                           SortByNumber(fields), 1, syntax)),
        <<"}">>)

RECURSIVE WriteExtendBlocks(_, _, _, _, _)
\* `for (extendee, mut fields) in groups`, the BTreeMap in key order
WriteExtendBlocks(g, file, keys, i, syntax) ==
    IF i > Len(keys) THEN g
    ELSE WriteExtendBlocks(
             WriteExtendBlock(g, keys[i],
                 SelectSeq(file.extension, LAMBDA e : ExtendeeKey(e) = keys[i]),
                 syntax),
             file, keys, i + 1, syntax)

WriteExtensions(g, file, syntax) ==
    WriteExtendBlocks(g, file, SortedDotted({ExtendeeKey(e) : e \in Range(file.extension)}),
                      1, syntax)

(* ----------------------------- format_file ---------------------------- *)
\* step 1 of format_file: the syntax line
WriteSyntax(g, syntax) ==
    IF syntax # "" THEN WriteNewline(WriteLine(g, <<"syntax", syntax>>)) ELSE g

\* step 2 of format_file: the package line
WritePackage(g, file) ==
    IF file.package # None /\ file.package[1] # <<"">>
    THEN WriteNewline(WriteLine(g, <<"package", file.package[1]>>))
    ELSE g

\* steps 3 to 8 of format_file
WriteBody(g, file, syntax) ==
    WriteExtensions(
        WriteServices(
            WriteEnums(
                WriteMessages(
                    WriteFileOptions(WriteImports(g, file), file),
                    file, syntax),
                file),
            file),
        file, syntax)

\* format_file without the output.clear() and the indent reset at its entry
FormatFileStateAppending(g, file) ==
    WriteBody(WritePackage(WriteSyntax([g EXCEPT !.current_file = Some(file)],
                                       UnwrapOr(file.syntax, "proto2")), file),
              file, UnwrapOr(file.syntax, "proto2"))

\* format_file: the generator it leaves behind; the String it returns is
\* the output of that generator
FormatFileState(g, file) ==
    WriteBody(
        WritePackage(
            WriteSyntax([g EXCEPT !.output = <<>>, !.indent_level = 0,
                                  !.current_file = Some(file)],
                        UnwrapOr(file.syntax, "proto2")),
            file),
        file, UnwrapOr(file.syntax, "proto2"))

FormatFile(g, file) == FormatFileState(g, file).output

\* descriptor_to_proto: a fresh generator with the default options
DescriptorToProto(file) == FormatFile(NewGenerator(DefaultOptions), file)

(***************************************************************************)
(* The schema parser behind parse_proto_to_file_descriptor (lib.rs): the   *)
(* protobuf_parse crate, which is not part of the sources. It is modelled  *)
(* from the protobuf language on the statements the generator prints:      *)
(* syntax, package, import, file options, message (options, nested enums   *)
(* and messages, scalar fields with flag options, oneof, extension ranges, *)
(* reserved), enum, service, extend. A statement outside this list gives   *)
(* the error "Unsupported", which marks the edge of the model and not a    *)
(* behaviour of the parser.                                                *)
(***************************************************************************)
Kind(t) == IF t = <<>> THEN "" ELSE t[1]

UnescapeString(s) == IF s = "q\\\"x" THEN "q\"x" ELSE s

ScalarTypes ==
    { "TYPE_DOUBLE", "TYPE_FLOAT", "TYPE_INT64", "TYPE_UINT64", "TYPE_INT32",
      "TYPE_FIXED64", "TYPE_FIXED32", "TYPE_BOOL", "TYPE_STRING", "TYPE_BYTES",
      "TYPE_UINT32", "TYPE_SFIXED32", "TYPE_SFIXED64", "TYPE_SINT32",
      "TYPE_SINT64" }

\* Which label a field may carry: a oneof member carries none, a proto2
\* field or extension needs one, proto3 knows no `required`.
LabelError(mode, label) ==
    CASE mode = "oneof" -> IF label = "" THEN "" ELSE "LabelNotAllowed"
      [] mode = "proto2" -> IF label = "" THEN "LabelRequired" ELSE ""
      [] OTHER -> IF label = "required" THEN "LabelNotAllowed" ELSE ""

LabelOfText(label) ==
    CASE label = "repeated" -> "LABEL_REPEATED"
      [] label = "required" -> "LABEL_REQUIRED"
      [] OTHER -> "LABEL_OPTIONAL"

\* [ key = value, ... ] of a field: the flag options
ParseFieldOptions(opts) ==
    IF opts = <<>> THEN Ok(None)
    ELSE IF \E i \in 1..Len(opts) :
                opts[i][1] \notin {"packed", "deprecated", "lazy", "weak"}
    THEN Err("Unsupported")
    ELSE LET set(key) ==
                 IF \E i \in 1..Len(opts) : opts[i][1] = key
                 THEN Some(opts[CHOOSE i \in 1..Len(opts) : opts[i][1] = key][3] = "true")
                 ELSE None
         IN  Ok(Some([EmptyFieldOptions EXCEPT
                         !.packed = set("packed"), !.deprecated = set("deprecated"),
                         !.lazy = set("lazy"), !.weak = set("weak")]))

\* one field statement, given what its option list reads as; oneof_index is
\* the Option<i32> of the enclosing oneof. The synthetic oneof of a proto3
\* `optional` field holds no other field and is never printed: it is left
\* out of the descriptor.
FieldOfLine(t, mode, oneof_index, options) ==
    IF LabelError(mode, t[2]) # "" THEN Err(LabelError(mode, t[2]))
    ELSE IF t[3] = None THEN Err("SyntaxError")
    ELSE IF Len(t[3][1]) # 1 THEN Err("Unsupported")
    ELSE IF ~\E ty \in ScalarTypes : FieldTypeToString(ty) = t[3][1][1]
         THEN Err("Unsupported")
    ELSE IF ~options.ok THEN options
    ELSE Ok([EmptyField EXCEPT
                !.name = t[4], !.number = t[5],
                !.label = Some(LabelOfText(t[2])),
                !.type = Some(CHOOSE ty \in ScalarTypes : FieldTypeToString(ty) = t[3][1][1]),
                !.oneof_index = oneof_index,
                !.proto3_optional =
                    IF mode = "proto3" /\ t[2] = "optional" THEN Some(TRUE) ELSE None,
                !.options = options.val])

ParseFieldLine(t, mode, oneof_index) ==
    FieldOfLine(t, mode, oneof_index, ParseFieldOptions(t[6]))

\* a parsed item r appended to the sequence rec[field]; an error is passed on
AppendTo(rec, field, r, next) ==
    IF r.ok THEN [ok |-> TRUE, val |-> [rec EXCEPT ![field] = Append(@, r.val)], i |-> next]
    ELSE r

RECURSIVE ParseFieldBlock(_, _, _, _, _)
RECURSIVE ContinueFieldBlock(_, _, _, _)

\* the field statements up to the closing brace of a oneof or extend block;
\* acc.field holds the fields read so far
ParseFieldBlock(lines, i, mode, oneof_index, acc) ==
    IF i > Len(lines) THEN Err("SyntaxError")
    ELSE IF lines[i].t = <<"}">> THEN [ok |-> TRUE, val |-> acc.field, i |-> i + 1]
    ELSE IF Kind(lines[i].t) # "field"
         THEN Err(IF Kind(lines[i].t) \in {"map", "group"} THEN "Unsupported"
                  ELSE "SyntaxError")
    ELSE ContinueFieldBlock(lines, mode, oneof_index,
             AppendTo(acc, "field", ParseFieldLine(lines[i].t, mode, oneof_index), i + 1))

ContinueFieldBlock(lines, mode, oneof_index, r) ==
    IF r.ok THEN ParseFieldBlock(lines, r.i, mode, oneof_index, r.val) ELSE r

\* a printed range read back as [start, end] with the last number included
RangeOfText(r) ==
    IF Len(r) = 1 THEN [start |-> r[1], end |-> r[1]]
    ELSE IF r[2] = "max" THEN [start |-> r[1], end |-> MaxFieldNumber]
    ELSE [start |-> r[1], end |-> r[3]]

\* message ranges are stored half-open
HalfOpen(r) == [start |-> r.start, end |-> r.end + 1]

RECURSIVE ParseEnumBody(_, _, _)
ParseEnumBody(lines, i, en) ==
    IF i > Len(lines) THEN Err("SyntaxError")
    ELSE CASE lines[i].t = <<"}">> -> [ok |-> TRUE, val |-> en, i |-> i + 1]
           [] Kind(lines[i].t) = "option" ->
                ParseEnumBody(lines, i + 1,
                    [en EXCEPT !.options =
                        Some([UnwrapOr(@, EmptyEnumOptions) EXCEPT
                                 ![lines[i].t[2]] = Some(TRUE)])])
           [] Kind(lines[i].t) = "value" ->
                ParseEnumBody(lines, i + 1,
                    [en EXCEPT !.value = Append(@,
                        [name |-> lines[i].t[2], number |-> lines[i].t[3],
                         options |-> IF lines[i].t[4] THEN Some([deprecated |-> Some(TRUE)])
                                     ELSE None])])
           [] Kind(lines[i].t) = "reserved" /\ lines[i].t[2] = "ranges" ->
                ParseEnumBody(lines, i + 1,
                    [en EXCEPT !.reserved_range =
                        @ \o [k \in 1..Len(lines[i].t[3]) |-> RangeOfText(lines[i].t[3][k])]])
           [] Kind(lines[i].t) = "reserved" /\ lines[i].t[2] = "names" ->
                ParseEnumBody(lines, i + 1,
                    [en EXCEPT !.reserved_name = @ \o lines[i].t[3]])
           [] OTHER -> Err("SyntaxError")

\* the block b of a oneof named name added to msg: its fields and its
\* declaration; a oneof without fields is an error
AddOneof(msg, name, b) ==
    IF ~b.ok THEN b
    ELSE IF b.val = <<>> THEN Err("SyntaxError")
    ELSE [ok |-> TRUE, i |-> b.i,
          val |-> [msg EXCEPT !.field = @ \o b.val,
                              !.oneof_decl = Append(@, [name |-> name])]]

\* the index after a parsed block, 0 after an error
NextOf(r) == IF r.ok THEN r.i ELSE 0

\* a parsed block r appended to the sequence rec[field]
ParseNested(rec, field, r) == AppendTo(rec, field, r, NextOf(r))

RECURSIVE ParseMessageBody(_, _, _, _)
RECURSIVE ContinueMessage(_, _, _)
RECURSIVE ParseNestedMessage(_, _, _, _)

ParseMessageBody(lines, i, msg, syntax) ==
    IF i > Len(lines) THEN Err("SyntaxError")
    ELSE CASE lines[i].t = <<"}">> -> [ok |-> TRUE, val |-> msg, i |-> i + 1]
           [] Kind(lines[i].t) = "option" ->
                ParseMessageBody(lines, i + 1,
                    [msg EXCEPT !.options =
                        Some([UnwrapOr(@, EmptyMessageOptions) EXCEPT
                                 ![lines[i].t[2]] = Some(TRUE)])],
                    syntax)
           [] Kind(lines[i].t) = "enum" ->
                ContinueMessage(lines, syntax,
                    ParseNested(msg, "enum_type",
                        ParseEnumBody(lines, i + 1,
                                      [EmptyEnum EXCEPT !.name = lines[i].t[2]])))
           [] Kind(lines[i].t) = "message" ->
                ContinueMessage(lines, syntax,
                    ParseNestedMessage(lines, i, msg, syntax))
           [] Kind(lines[i].t) = "field" ->
                ContinueMessage(lines, syntax,
                    AppendTo(msg, "field", ParseFieldLine(lines[i].t, syntax, None), i + 1))
           [] Kind(lines[i].t) = "oneof" ->
                ContinueMessage(lines, syntax,
                    AddOneof(msg, lines[i].t[2],
                        ParseFieldBlock(lines, i + 1, "oneof",
                                        Some(Len(msg.oneof_decl)), [field |-> <<>>])))
           [] Kind(lines[i].t) = "extensions" ->
                ParseMessageBody(lines, i + 1,
                    [msg EXCEPT !.extension_range =
                        Append(@, HalfOpen(RangeOfText(lines[i].t[2])))], syntax)
           [] Kind(lines[i].t) = "reserved" /\ lines[i].t[2] = "ranges" ->
                ParseMessageBody(lines, i + 1,
                    [msg EXCEPT !.reserved_range =
                        @ \o [k \in 1..Len(lines[i].t[3]) |->
                                 HalfOpen(RangeOfText(lines[i].t[3][k]))]],
                    syntax)
           [] Kind(lines[i].t) = "reserved" /\ lines[i].t[2] = "names" ->
                ParseMessageBody(lines, i + 1,
                    [msg EXCEPT !.reserved_name = @ \o lines[i].t[3]], syntax)
           [] Kind(lines[i].t) \in {"map", "group"} -> Err("Unsupported")
           [] OTHER -> Err("SyntaxError")

ContinueMessage(lines, syntax, r) ==
    IF r.ok THEN ParseMessageBody(lines, r.i, r.val, syntax) ELSE r

\* the message block that starts at line i, appended to msg.nested_type
ParseNestedMessage(lines, i, msg, syntax) ==
    ParseNested(msg, "nested_type",
        ParseMessageBody(lines, i + 1, [EmptyMessage EXCEPT !.name = lines[i].t[2]],
                         syntax))

\* one rpc statement, with its option block when it has one
MethodOfLine(t) ==
    [EmptyMethod EXCEPT !.name = t[2], !.client_streaming = t[3],
                        !.input_type = t[4], !.server_streaming = t[5],
                        !.output_type = t[6]]

ParseMethod(lines, i) ==
    IF lines[i].t[4] = None \/ lines[i].t[6] = None THEN Err("SyntaxError")
    ELSE IF lines[i].t[7] = ";"
    THEN [ok |-> TRUE, val |-> MethodOfLine(lines[i].t), i |-> i + 1]
    ELSE IF /\ i + 2 <= Len(lines)
            /\ lines[i + 1].t = <<"option", "deprecated", "", "true">>
            /\ lines[i + 2].t = <<"}", ";">>
    THEN [ok |-> TRUE, i |-> i + 3,
          val |-> [MethodOfLine(lines[i].t) EXCEPT
                      !.options = Some([deprecated |-> Some(TRUE)])]]
    ELSE Err("SyntaxError")

RECURSIVE ParseServiceBody(_, _, _)
RECURSIVE ContinueService(_, _)

ParseServiceBody(lines, i, svc) ==
    IF i > Len(lines) THEN Err("SyntaxError")
    ELSE CASE lines[i].t = <<"}">> -> [ok |-> TRUE, val |-> svc, i |-> i + 1]
           [] Kind(lines[i].t) = "option" ->
                ParseServiceBody(lines, i + 1,
                    [svc EXCEPT !.options = Some([deprecated |-> Some(TRUE)])])
           [] Kind(lines[i].t) = "rpc" ->
                ContinueService(lines, ParseNested(svc, "method", ParseMethod(lines, i)))
           [] OTHER -> Err("SyntaxError")

ContinueService(lines, r) ==
    IF r.ok THEN ParseServiceBody(lines, r.i, r.val) ELSE r

\* a file option statement: the value read back by the kind of its key
ParseFileOption(t) ==
    IF t[3] = "\"" THEN UnescapeString(t[4])
    ELSE IF t[2] = "optimize_for"
         THEN CHOOSE v \in 1..3 : OptimizeModeName(v) = t[4]
    ELSE t[4] = "true"

\* A type name as the generator prints it (fully qualified, no leading dot)
\* names a top-level message of the file.
NamesTopLevelMessage(file, d) ==
    /\ Len(d) = Len(UnwrapOr(file.package, <<>>)) + 1
    /\ SubSeq(d, 1, Len(d) - 1) = UnwrapOr(file.package, <<>>)
    /\ \E k \in 1..Len(file.message_type) : file.message_type[k].name = d[Len(d)]

\* type resolution, after the whole file is read: every method type and every
\* extendee must name a message; the resolved name carries the leading dot
ResolveTypes(file) ==
    IF \/ \E s \in 1..Len(file.service) : \E m \in 1..Len(file.service[s].method) :
             \/ ~NamesTopLevelMessage(file, file.service[s].method[m].input_type[1])
             \/ ~NamesTopLevelMessage(file, file.service[s].method[m].output_type[1])
       \/ \E e \in 1..Len(file.extension) :
             ~NamesTopLevelMessage(file, file.extension[e].extendee[1])
    THEN Err("NotFound")
    ELSE Ok([file EXCEPT
                !.service = [s \in 1..Len(file.service) |->
                    [file.service[s] EXCEPT !.method =
                        [m \in 1..Len(file.service[s].method) |->
                            [file.service[s].method[m] EXCEPT
                                !.input_type = Some(<<"">> \o @[1]),
                                !.output_type = Some(<<"">> \o @[1])]]]],
                !.extension = [e \in 1..Len(file.extension) |->
                    [file.extension[e] EXCEPT !.extendee = Some(<<"">> \o @[1])]]])

\* the fields of an `extend <extendee> { ... }` block b added to the file
AddExtensions(file, extendee, b) ==
    IF ~b.ok THEN b
    ELSE [ok |-> TRUE, i |-> b.i,
          val |-> [file EXCEPT !.extension = @ \o
                      [k \in 1..Len(b.val) |->
                          [b.val[k] EXCEPT !.extendee = Some(extendee)]]]]

RECURSIVE ParseTop(_, _, _)
RECURSIVE ContinueTop(_, _)

ParseTop(lines, i, file) ==
    IF i > Len(lines) THEN ResolveTypes(file)
    ELSE CASE lines[i].t = <<>> -> ParseTop(lines, i + 1, file)
           [] Kind(lines[i].t) = "syntax" ->
                IF lines[i].t[2] \in {"proto2", "proto3"}
                THEN ParseTop(lines, i + 1, [file EXCEPT !.syntax = Some(lines[i].t[2])])
                ELSE Err("SyntaxError")
           [] Kind(lines[i].t) = "package" ->
                ParseTop(lines, i + 1, [file EXCEPT !.package = Some(lines[i].t[2])])
           [] Kind(lines[i].t) = "import" ->
                ParseTop(lines, i + 1,
                    [file EXCEPT
                        !.dependency = Append(@, lines[i].t[3]),
                        !.public_dependency =
                            IF lines[i].t[2] = "public"
                            THEN Append(@, Len(file.dependency)) ELSE @,
                        !.weak_dependency =
                            IF lines[i].t[2] = "weak"
                            THEN Append(@, Len(file.dependency)) ELSE @])
           [] Kind(lines[i].t) = "option" ->
                ParseTop(lines, i + 1,
                    [file EXCEPT !.options =
                        Some([UnwrapOr(@, EmptyFileOptions) EXCEPT
                                 ![lines[i].t[2]] = Some(ParseFileOption(lines[i].t))])])
           [] Kind(lines[i].t) = "message" ->
                ContinueTop(lines,
                    ParseNested(file, "message_type",
                        ParseMessageBody(lines, i + 1,
                            [EmptyMessage EXCEPT !.name = lines[i].t[2]],
                            UnwrapOr(file.syntax, "proto2"))))
           [] Kind(lines[i].t) = "enum" ->
                ContinueTop(lines,
                    ParseNested(file, "enum_type",
                        ParseEnumBody(lines, i + 1,
                                      [EmptyEnum EXCEPT !.name = lines[i].t[2]])))
           [] Kind(lines[i].t) = "service" ->
                ContinueTop(lines,
                    ParseNested(file, "service",
                        ParseServiceBody(lines, i + 1,
                                         [EmptyService EXCEPT !.name = lines[i].t[2]])))
           [] Kind(lines[i].t) = "extend" ->
                ContinueTop(lines,
                    AddExtensions(file, lines[i].t[2],
                        ParseFieldBlock(lines, i + 1, UnwrapOr(file.syntax, "proto2"),
                                        None, [field |-> <<>>])))
           [] OTHER -> Err("SyntaxError")

ContinueTop(lines, r) ==
    IF r.ok THEN ParseTop(lines, r.i, r.val) ELSE r

\* parse_proto_to_file_descriptor: Ok(descriptor) or Err(the parser's error)
ParseProtoToFileDescriptor(proto_content) == ParseTop(proto_content, 1, EmptyFile)

(***************************************************************************)
(* generate_fingerprint (lib.rs). SHA-256 is modelled as a collision-free  *)
(* digest: the digest of a text is the record [sha256 |-> text], so equal  *)
(* digests mean equal texts.                                               *)
(***************************************************************************)
Sha256Hex(text) == [sha256 |-> text]

\* generate_fingerprint after the `?` on the parser's result
FingerprintOf(descriptor) ==
    IF ~descriptor.ok THEN descriptor
    ELSE Ok(Sha256Hex(DescriptorToProto(descriptor.val)))

GenerateFingerprint(proto_content) ==
    FingerprintOf(ParseProtoToFileDescriptor(proto_content))

(***************************************************************************)
(* merge.rs. An input file (a schema source string) is modelled by what    *)
(* parse_proto_content makes of it: [parses |-> FALSE] for a text the      *)
(* parser rejects, else [parses |-> TRUE, descriptor |-> d].               *)
(***************************************************************************)
\* parse_all_files skipping the files the parser rejects
ParseParsableFiles(fs) ==
    Ok([i \in 1..Len(SelectSeq(fs, LAMBDA f : f.parses)) |->
           SelectSeq(fs, LAMBDA f : f.parses)[i].descriptor])

\* parse_all_files: the descriptors, or the failure of the first bad file
ParseAllFiles(fs) ==
    LET bad == {i \in 1..Len(fs) : ~fs[i].parses}
    IN  IF bad # {}
        THEN Err([kind |-> "ParseFailure",
                  file |-> (CHOOSE i \in bad : \A j \in bad : i <= j) - 1])
        ELSE Ok([i \in 1..Len(fs) |-> fs[i].descriptor])

\* file.descriptor.package.clone().unwrap_or_default()
PackageOf(d) == UnwrapOr(d.package, <<"">>)

\* group_by_package with the files kept apart instead of collected under
\* their package name
GroupPerFile(descriptors) ==
    [k \in 1..Len(descriptors) |->
        [ package_name |-> PackageOf(descriptors[k]), files |-> << descriptors[k] >> ]]

\* group_by_package: the BTreeMap as the sequence of its entries in key order
GroupByPackage(descriptors) ==
    LET keys == SortedDotted({PackageOf(d) : d \in Range(descriptors)})
    IN  [k \in 1..Len(keys) |->
            [ package_name |-> keys[k],
              files |-> SelectSeq(descriptors, LAMBDA d : PackageOf(d) = keys[k]) ]]

\* an absent syntax taken for proto3
SyntaxOrProto3(d) == UnwrapOr(d.syntax, "proto3")

SyntaxOf(d) == UnwrapOr(d.syntax, "proto2")

ValidateSyntaxConsistency(group) ==
    LET syntaxes == {SyntaxOf(d) : d \in Range(group)}
    IN  IF Cardinality(syntaxes) > 1
        THEN Err([kind |-> "SyntaxConflict", syntaxes |-> syntaxes])
        ELSE IF syntaxes = {} THEN Ok("proto2")
        ELSE Ok(CHOOSE s \in syntaxes : TRUE)

\* the elements of a BTreeSet<String> in iteration order
SortedStrings(S) ==
    [p \in 1..Cardinality(S) |->
        CHOOSE e \in S : Cardinality({e2 \in S : StrLt(e2, e)}) = p - 1]

\* the paths a file marks through an index list; an index out of range
\* (dependency.get(idx as usize) is None) marks nothing
MarkedPaths(d, indices) ==
    {d.dependency[indices[k] + 1] :
        k \in {j \in 1..Len(indices) :
                  indices[j] >= 0 /\ indices[j] < Len(d.dependency)}}

\* the positions counted from 1
IndicesFromOne(imports, S) ==
    LET idx == {i \in 1..Len(imports) : imports[i] \in S}
    IN  [p \in 1..Cardinality(idx) |->
            CHOOSE i \in idx : Cardinality({j \in idx : j < i}) = p - 1]

\* positions (0-based, ascending) of the paths of S in imports
IndicesOf(imports, S) ==
    LET idx == {i \in 1..Len(imports) : imports[i] \in S}
    IN  [p \in 1..Cardinality(idx) |->
            (CHOOSE i \in idx : Cardinality({j \in idx : j < i}) = p - 1) - 1]

MergeImports(group, merged) ==
    LET all_imports == UNION {Range(d.dependency) : d \in Range(group)}
        public_imports == UNION {MarkedPaths(d, d.public_dependency) : d \in Range(group)}
        weak_imports == UNION {MarkedPaths(d, d.weak_dependency) : d \in Range(group)}
        imports == SortedStrings(all_imports)
    IN  [merged EXCEPT !.dependency = imports,
                       !.public_dependency = @ \o IndicesOf(imports, public_imports),
                       !.weak_dependency = @ \o IndicesOf(imports, weak_imports)]

\* the warnings one later file adds in merge_file_options; idx is 0-based
OptionWarnings(opts, merged_opts, idx) ==
    (IF opts.java_package # merged_opts.java_package /\ opts.java_package # None
     THEN << [file |-> idx, option |-> "java_package"] >> ELSE <<>>)
    \o (IF opts.go_package # merged_opts.go_package /\ opts.go_package # None
        THEN << [file |-> idx, option |-> "go_package"] >> ELSE <<>>)

RECURSIVE OptionConflicts(_, _, _)
\* `for (idx, file) in files.iter().enumerate().skip(1)`; i is 1-based
OptionConflicts(group, merged, i) ==
    IF i > Len(group) THEN <<>>
    ELSE (IF group[i].options # None /\ merged.options # None
          THEN OptionWarnings(group[i].options[1], merged.options[1], i - 1)
          ELSE <<>>)
         \o OptionConflicts(group, merged, i + 1)

\* merge_file_options: the merged descriptor and the warnings pushed
MergeFileOptions(group, merged, warnings) ==
    LET m == IF group # <<>> /\ group[1].options # None
             THEN [merged EXCEPT !.options = group[1].options]
             ELSE merged
    IN  [merged |-> m, warnings |-> warnings \o OptionConflicts(group, m, 2)]

RECURSIVE Flatten(_, _, _)
\* the definitions of one kind (sel: message_type, enum_type, service or
\* extension) of all files in visiting order, each with its 0-based file index
Flatten(group, sel, i) ==
    IF i > Len(group) THEN <<>>
    ELSE [j \in 1..Len(group[i][sel]) |-> [file_idx |-> i - 1, item |-> group[i][sel][j]]]
         \o Flatten(group, sel, i + 1)

\* the first definition whose name was seen before (seen_names.get(name))
FirstDuplicate(all) ==
    IF \A p \in 1..Len(all) : \A q \in 1..(p - 1) : all[q].item.name # all[p].item.name
    THEN None
    ELSE Some(CHOOSE p \in 1..Len(all) :
                 /\ \E q \in 1..(p - 1) : all[q].item.name = all[p].item.name
                 /\ \A r \in 1..(p - 1) :
                        \A q \in 1..(r - 1) : all[q].item.name # all[r].item.name)

\* the bail!() of merge_messages / merge_enums / merge_services: all[p] is
\* the definition whose name seen_names already holds
DuplicateError(all, p, kind) ==
    Err([kind |-> "DuplicateSymbol", symbol_kind |-> kind,
         name |-> all[p].item.name,
         prev_idx |-> all[CHOOSE q \in 1..(p - 1) :
                              all[q].item.name = all[p].item.name].file_idx,
         file_idx |-> all[p].file_idx])

Items(all) == [p \in 1..Len(all) |-> all[p].item]

\* the body shared by merge_messages, merge_enums and merge_services: all is
\* the definitions visited, dup the first one that repeats a name
MergeDefinitions(merged, sel, kind, all, dup) ==
    IF dup # None THEN DuplicateError(all, dup[1], kind)
    ELSE Ok([merged EXCEPT ![sel] = SortByName(Items(all))])

MergeMessages(group, merged) ==
    MergeDefinitions(merged, "message_type", "message",
                     Flatten(group, "message_type", 1),
                     FirstDuplicate(Flatten(group, "message_type", 1)))

\* merge_enums without the seen_names check
MergeEnumsUnchecked(group, merged) ==
    MergeDefinitions(merged, "enum_type", "enum",
                     Flatten(group, "enum_type", 1), None)

MergeEnums(group, merged) ==
    MergeDefinitions(merged, "enum_type", "enum",
                     Flatten(group, "enum_type", 1),
                     FirstDuplicate(Flatten(group, "enum_type", 1)))

\* merge_services taking the services of the first file only, the way
\* merge_file_options takes the options
MergeServicesOfFirst(group, merged) ==
    MergeDefinitions(merged, "service", "service",
                     Flatten(SubSeq(group, 1, 1), "service", 1),
                     FirstDuplicate(Flatten(SubSeq(group, 1, 1), "service", 1)))

MergeServices(group, merged) ==
    MergeDefinitions(merged, "service", "service",
                     Flatten(group, "service", 1),
                     FirstDuplicate(Flatten(group, "service", 1)))

\* all_extensions.sort_by(extendee, then number)
SortExtensions(all) ==
    StableSort(all, [i \in 1..Len(all) |->
                        OptDottedKey(all[i].extendee) \o <<all[i].number>>])

MergeExtensions(group, merged) ==
    [merged EXCEPT !.extension = SortExtensions(Items(Flatten(group, "extension", 1)))]

\* `merge_enums(&files, &mut merged)?` after the steps before it gave r
ThenMergeEnums(group, r) == IF r.ok THEN MergeEnums(group, r.val) ELSE r

ThenMergeServices(group, r) == IF r.ok THEN MergeServices(group, r.val) ELSE r

ThenMergeExtensions(group, r) ==
    IF r.ok THEN Ok(MergeExtensions(group, r.val)) ELSE r

\* the merged descriptor r together with the warnings collected
WithWarnings(r, warnings) ==
    IF r.ok THEN Ok([merged |-> r.val, warnings |-> warnings]) ELSE r

\* the merge steps with merge_services called before merge_enums
MergeSymbolsServicesFirst(group, o) ==
    WithWarnings(
        ThenMergeExtensions(group,
            ThenMergeEnums(group,
                ThenMergeServices(group, MergeMessages(group, o.merged)))),
        o.warnings)

\* merge_package_group from merge_messages to merge_extensions; o is what
\* merge_file_options left: the merged descriptor and the warnings
MergeSymbols(group, o) ==
    WithWarnings(
        ThenMergeExtensions(group,
            ThenMergeServices(group,
                ThenMergeEnums(group, MergeMessages(group, o.merged)))),
        o.warnings)

\* FileDescriptorProto::new() with set_syntax and, for a non-empty package
\* name, set_package
NewMerged(package_name, syntax) ==
    [EmptyFile EXCEPT
        !.syntax = Some(syntax),
        !.package = IF package_name # <<"">> THEN Some(package_name) ELSE None]

\* merge_package_group after `validate_syntax_consistency(...)?` gave syntax
MergeWithSyntax(package_name, group, syntax) ==
    IF ~syntax.ok THEN syntax
    ELSE MergeSymbols(group,
             MergeFileOptions(group,
                 MergeImports(group, NewMerged(package_name, syntax.val)), <<>>))

\* merge_package_group up to merge_extensions: the unified descriptor and the
\* warnings, or the error of the first failing step
UnifiedDescriptor(package_name, group) ==
    MergeWithSyntax(package_name, group, ValidateSyntaxConsistency(group))

\* the end of merge_package_group: the `?` on the fingerprint, the result
MergeResultOf(package_name, content, warnings, fingerprint) ==
    IF ~fingerprint.ok
    THEN Err([kind |-> "FingerprintFailure", cause |-> fingerprint.err])
    ELSE Ok([ package_name |-> package_name, content |-> content,
              fingerprint |-> fingerprint.val, warnings |-> warnings ])

\* merge_package_group from the generated content on
FingerprintContent(package_name, content, warnings) ==
    MergeResultOf(package_name, content, warnings, GenerateFingerprint(content))

\* merge_package_group from the unified descriptor u on
Canonicalise(package_name, u) ==
    IF ~u.ok THEN u
    ELSE FingerprintContent(package_name,
                            FormatFile(NewGenerator(DefaultOptions), u.val.merged),
                            u.val.warnings)

MergePackageGroup(package_name, group) ==
    Canonicalise(package_name, UnifiedDescriptor(package_name, group))

\* results.sort_by(|a, b| a.package_name.cmp(&b.package_name))
SortResults(rs) ==
    StableSort(rs, [i \in 1..Len(rs) |-> DottedKey(rs[i].package_name)])

RECURSIVE MergeGroups(_, _, _)
RECURSIVE PushResult(_, _, _, _)

\* the `for (package_name, file_group) in grouped` loop from entry i on
MergeGroups(grouped, i, rs) ==
    IF i > Len(grouped) THEN Ok(rs)
    ELSE PushResult(grouped, i, rs,
                    MergePackageGroup(grouped[i].package_name, grouped[i].files))

\* `let merge_result = merge_package_group(..)?; results.push(merge_result);`
PushResult(grouped, i, rs, merge_result) ==
    IF ~merge_result.ok THEN merge_result
    ELSE MergeGroups(grouped, i + 1, Append(rs, merge_result.val))

\* Step 4 of merge_by_package on the outcome of the loop
SortedOutcome(rs) == IF ~rs.ok THEN rs ELSE Ok(SortResults(rs.val))

\* Steps 2 to 4 of merge_by_package on the outcome of Step 1
MergeParsed(parsed) ==
    IF ~parsed.ok THEN parsed
    ELSE SortedOutcome(MergeGroups(GroupByPackage(parsed.val), 1, <<>>))

\* merge_by_package as a function of its argument
MergeByPackage(fs) ==
    IF fs = <<>> THEN Ok(<<>>) ELSE MergeParsed(ParseAllFiles(fs))

(***************************************************************************)
(* The schema files the calls are made with. Each is given by the          *)
(* descriptor parse_proto_content returns for it.                          *)
(***************************************************************************)
MaxFiles == 3

Field(name, number, label, type) ==
    [EmptyField EXCEPT !.name = name, !.number = number,
                       !.label = Some(label), !.type = Some(type)]

Message(name) == [EmptyMessage EXCEPT !.name = name]

\* enum <name> { Blue = 0; }
Enum(name) ==
    [EmptyEnum EXCEPT !.name = name,
                      !.value = << [name |-> "Blue", number |-> 0, options |-> None] >>]

Source(d) == [parses |-> TRUE, descriptor |-> d]

\* syntax = "proto3"; package foo; import "b.proto"; import public "a.proto";
\* option java_package = "x";
\* message B {}  message A { message T {} int32 b = 2; string a = 1; }
FooMessages ==
    Source([EmptyFile EXCEPT
        !.syntax = Some("proto3"), !.package = Some(<<"foo">>),
        !.dependency = <<"b.proto", "a.proto">>, !.public_dependency = <<1>>,
        !.options = Some([EmptyFileOptions EXCEPT !.java_package = Some("x")]),
        !.message_type = <<
            Message("B"),
            [Message("A") EXCEPT
                !.nested_type = << Message("T") >>,
                !.field = << Field("b", 2, "LABEL_OPTIONAL", "TYPE_INT32"),
                             Field("a", 1, "LABEL_OPTIONAL", "TYPE_STRING") >>] >>])

\* syntax = "proto3"; package foo; import weak "a.proto";
\* message M {}  enum B { Blue = 0; }  service Svc { rpc Get(M) returns (M); }
FooService ==
    Source([EmptyFile EXCEPT
        !.syntax = Some("proto3"), !.package = Some(<<"foo">>),
        !.dependency = <<"a.proto">>, !.weak_dependency = <<0>>,
        !.message_type = << Message("M") >>,
        !.enum_type = << Enum("B") >>,
        !.service = << [EmptyService EXCEPT
            !.name = "Svc",
            !.method = << [EmptyMethod EXCEPT
                !.name = "Get",
                !.input_type = Some(<<"", "foo", "M">>),
                !.output_type = Some(<<"", "foo", "M">>)] >>] >>])

\* syntax = "proto3"; package foo; option java_package = "y"; message A {}
FooMessageAgain ==
    Source([EmptyFile EXCEPT
        !.syntax = Some("proto3"), !.package = Some(<<"foo">>),
        !.options = Some([EmptyFileOptions EXCEPT !.java_package = Some("y")]),
        !.message_type = << Message("A") >>])

\* syntax = "proto3"; package foo; option java_package = "x";
\* option java_multiple_files = true; enum B { Blue = 0; }
FooEnumAgain ==
    Source([EmptyFile EXCEPT
        !.syntax = Some("proto3"), !.package = Some(<<"foo">>),
        !.options = Some([EmptyFileOptions EXCEPT
                             !.java_package = Some("x"),
                             !.java_multiple_files = Some(TRUE)]),
        !.enum_type = << Enum("B") >>])

\* syntax = "proto3"; package foo; option java_package = "y";
\* option go_package = "x"; service Svc {}
FooServiceAgain ==
    Source([EmptyFile EXCEPT
        !.syntax = Some("proto3"), !.package = Some(<<"foo">>),
        !.options = Some([EmptyFileOptions EXCEPT !.java_package = Some("y"),
                                                  !.go_package = Some("x")]),
        !.service = << [EmptyService EXCEPT !.name = "Svc"] >>])

\* syntax = "proto2"; package foo; message T {}
FooProto2 ==
    Source([EmptyFile EXCEPT
        !.syntax = Some("proto2"), !.package = Some(<<"foo">>),
        !.message_type = << Message("T") >>])

\* syntax = "proto2"; package bar;
\* message T { extensions 1 to 3; }
\* message M { optional int32 a = 5; extend T { optional int32 b = 1; } }
\* extend T { optional int32 x = 2; }
BarExtensions ==
    Source([EmptyFile EXCEPT
        !.syntax = Some("proto2"), !.package = Some(<<"bar">>),
        !.message_type = <<
            [Message("T") EXCEPT !.extension_range = << [start |-> 1, end |-> 4] >>],
            [Message("M") EXCEPT
                !.field = << Field("a", 5, "LABEL_OPTIONAL", "TYPE_INT32") >>,
                !.extension = << [Field("b", 1, "LABEL_OPTIONAL", "TYPE_INT32") EXCEPT
                                     !.extendee = Some(<<"", "bar", "T">>)] >>] >>,
        !.extension = << [Field("x", 2, "LABEL_OPTIONAL", "TYPE_INT32") EXCEPT
                             !.extendee = Some(<<"", "bar", "T">>)] >>])

\* syntax = "proto2"; package bar; message T { oneof y { int32 x = 1; } }
BarOneof ==
    Source([EmptyFile EXCEPT
        !.syntax = Some("proto2"), !.package = Some(<<"bar">>),
        !.message_type = << [Message("T") EXCEPT
            !.field = << [Field("x", 1, "LABEL_OPTIONAL", "TYPE_INT32") EXCEPT
                             !.oneof_index = Some(0)] >>,
            !.oneof_decl = << [name |-> "y"] >>] >>])

\* package bar; option go_package = "x"; message A { required int32 a = 1; }
BarNoSyntax ==
    Source([EmptyFile EXCEPT
        !.package = Some(<<"bar">>),
        !.options = Some([EmptyFileOptions EXCEPT !.go_package = Some("x")]),
        !.message_type = << [Message("A") EXCEPT
            !.field = << Field("a", 1, "LABEL_REQUIRED", "TYPE_INT32") >>] >>])

\* syntax = "proto3"; message A {}
NoPackage ==
    Source([EmptyFile EXCEPT
        !.syntax = Some("proto3"), !.message_type = << Message("A") >>])

\* a text the parser rejects
Malformed == [parses |-> FALSE]

Sources ==
    { FooMessages, FooService, FooMessageAgain, FooEnumAgain, FooServiceAgain,
      FooProto2, BarExtensions, BarOneof, BarNoSyntax, NoPackage, Malformed }

\* the Vec<&str> arguments: every sequence of at most MaxFiles files
Inputs == UNION {[1..n -> Sources] : n \in 0..MaxFiles}

(***************************************************************************)
(* merge_by_package as a state machine: one call after the other, each     *)
(* call advancing through the four steps of the function body. pc is the   *)
(* position of the running call; parsed_files, grouped and results are its *)
(* locals; merged is the local of the merge_package_group invocation of    *)
(* the latest loop iteration; ret is what the call returned; prev is the   *)
(* argument and the return value of the call before it. generator is a     *)
(* TextGenerator a caller keeps for several format_file calls and          *)
(* formatted the descriptors it was given, in order.                       *)
(***************************************************************************)
VARIABLES files, pc, parsed_files, grouped, results, merged, ret, prev,
          descriptor, text, generator, formatted

vars == << files, pc, parsed_files, grouped, results, merged, ret, prev,
           descriptor, text, generator, formatted >>

mergeVars == << files, pc, parsed_files, grouped, results, merged, ret, prev >>

genVars == << descriptor, text, generator, formatted >>

Init ==
    /\ files = <<>>
    /\ pc = "idle"
    /\ parsed_files = <<>>
    /\ grouped = <<>>
    /\ results = <<>>
    /\ merged = None
    /\ ret = None
    /\ prev = None
    /\ descriptor = None
    /\ text = None
    /\ generator = None
    /\ formatted = <<>>

\* the entry of merge_by_package with the files of the call added to those
\* of the call before, as if the input were kept in a buffer never cleared
EnterAccumulating(fs) ==
    /\ files' = files \o fs
    /\ parsed_files' = <<>>
    /\ grouped' = <<>>
    /\ merged' = None
    /\ UNCHANGED results
    /\ IF fs = <<>>
       THEN pc' = "done" /\ ret' = Some(Ok(<<>>))
       ELSE pc' = "parse" /\ ret' = None

\* entry of merge_by_package with argument fs, and the files.is_empty() return
Enter(fs) ==
    /\ files' = fs
    /\ parsed_files' = <<>>
    /\ grouped' = <<>>
    /\ merged' = None
    /\ UNCHANGED results
    /\ IF fs = <<>>
       THEN pc' = "done" /\ ret' = Some(Ok(<<>>))
       ELSE pc' = "parse" /\ ret' = None

\* the first call
Call ==
    /\ pc = "idle"
    /\ \E fs \in Inputs : Enter(fs)
    /\ UNCHANGED << prev, genVars >>

\* a second call with the same argument, after the first has returned
CallAgain ==
    /\ pc = "done"
    /\ prev = None
    /\ prev' = Some([files |-> files, ret |-> ret[1]])
    /\ Enter(files)
    /\ UNCHANGED genVars

\* Step 1: let parsed_files = parse_all_files(&files)?;
ParseAll ==
    /\ pc = "parse"
    /\ LET r == ParseAllFiles(files)
       IN  IF r.ok
           THEN parsed_files' = r.val /\ pc' = "group" /\ UNCHANGED ret
           ELSE ret' = Some(r) /\ pc' = "done" /\ UNCHANGED parsed_files
    /\ UNCHANGED << files, grouped, results, merged, prev, genVars >>

\* Step 2: let grouped = group_by_package(parsed_files)?;
\*         let mut results = Vec::new();
Group ==
    /\ pc = "group"
    /\ grouped' = GroupByPackage(parsed_files)
    /\ results' = <<>>
    /\ pc' = "merge"
    /\ UNCHANGED << files, parsed_files, merged, ret, prev, genVars >>

\* the loop body on the outcome u of the steps up to merge_extensions and
\* the outcome merge_result of merge_package_group
MergeStep(u, merge_result) ==
    /\ merged' = IF u.ok THEN Some(u.val.merged) ELSE None
    /\ IF merge_result.ok
       THEN results' = Append(results, merge_result.val) /\ UNCHANGED << pc, ret >>
       ELSE ret' = Some(merge_result) /\ pc' = "done" /\ UNCHANGED results

\* Step 3, one iteration of the loop: the next entry of grouped is the one
\* after the last result pushed
MergeNext ==
    /\ pc = "merge"
    /\ Len(results) < Len(grouped)
    /\ MergeStep(UnifiedDescriptor(grouped[Len(results) + 1].package_name,
                                   grouped[Len(results) + 1].files),
                 MergePackageGroup(grouped[Len(results) + 1].package_name,
                                   grouped[Len(results) + 1].files))
    /\ UNCHANGED << files, parsed_files, grouped, prev, genVars >>

\* Step 4: results.sort_by(...); Ok(results)
SortAndReturn ==
    /\ pc = "merge"
    /\ Len(results) = Len(grouped)
    /\ results' = SortResults(results)
    /\ ret' = Some(Ok(results'))
    /\ pc' = "done"
    /\ UNCHANGED << files, parsed_files, grouped, merged, prev, genVars >>

Next == Call \/ CallAgain \/ ParseAll \/ Group \/ MergeNext \/ SortAndReturn

Spec == Init /\ [][Next]_vars

(***************************************************************************)
(* The generator's entry point as a state machine: descriptor_to_proto is  *)
(* called on a descriptor (whose definitions are in any order), and the    *)
(* text it returned is normalised again the way normalize_file does (parse *)
(* it, generate from what the parser made of it).                          *)
(***************************************************************************)
MaxTop == 2

\* the sequences of at most n distinct names of S
DistinctSeqs(S, n) ==
    {s \in UNION {[1..k -> S] : k \in 0..n} :
        \A i, j \in 1..Len(s) : i # j => s[i] # s[j]}

Service(name) == [EmptyService EXCEPT !.name = name]

\* a file of package foo with the named messages, enums and services, in
\* the order given
GenFile(syntax, ms, es, ss) ==
    [EmptyFile EXCEPT
        !.syntax = Some(syntax), !.package = Some(<<"foo">>),
        !.message_type = [i \in 1..Len(ms) |-> Message(ms[i])],
        !.enum_type = [i \in 1..Len(es) |-> Enum(es[i])],
        !.service = [i \in 1..Len(ss) |-> Service(ss[i])]]

\* a field of a composite type (message, enum or group) named by type_name
TypedField(name, number, label, type, type_name) ==
    [Field(name, number, label, type) EXCEPT !.type_name = Some(type_name)]

\* a field that is member of the oneof declared at oneof_index
Member(field, oneof_index) == [field EXCEPT !.oneof_index = Some(oneof_index)]

\* the synthetic entry message of a map field: key = 1, value = 2
MapEntry(name, key_type, value_type) ==
    [Message(name) EXCEPT
        !.options = Some([EmptyMessageOptions EXCEPT !.map_entry = Some(TRUE)]),
        !.field = << Field("key", 1, "LABEL_OPTIONAL", key_type),
                     Field("value", 2, "LABEL_OPTIONAL", value_type) >>]

\* syntax = "proto3"; package foo;
\* message A { oneof y { int32 d = 5; int32 e = 4; int32 a = 1; }
\*             string c = 3; optional int32 b = 2; }
\* with the field list in the order d, c, e, b, a
ScrambledFields ==
    [EmptyFile EXCEPT
        !.syntax = Some("proto3"), !.package = Some(<<"foo">>),
        !.message_type = << [Message("A") EXCEPT
            !.field = <<
                Member(Field("d", 5, "LABEL_OPTIONAL", "TYPE_INT32"), 0),
                Field("c", 3, "LABEL_OPTIONAL", "TYPE_STRING"),
                Member(Field("e", 4, "LABEL_OPTIONAL", "TYPE_INT32"), 0),
                [Member(Field("b", 2, "LABEL_OPTIONAL", "TYPE_INT32"), 1)
                    EXCEPT !.proto3_optional = Some(TRUE)],
                Member(Field("a", 1, "LABEL_OPTIONAL", "TYPE_INT32"), 0) >>,
            !.oneof_decl = << [name |-> "y"], [name |-> "_b"] >>] >>]

\* syntax = "proto3"; package foo;
\* message M { message T {} map<string, int32> m = 1; repeated T r = 2;
\*             T o = 4; }
\* and, as no source text gives them, a field n = 3 whose entry message
\* NEntry has a third field, and a top-level message B marked map_entry
MapFields ==
    [EmptyFile EXCEPT
        !.syntax = Some("proto3"), !.package = Some(<<"foo">>),
        !.message_type = <<
            [Message("M") EXCEPT
                !.nested_type = <<
                    MapEntry("MEntry", "TYPE_STRING", "TYPE_INT32"),
                    Message("T"),
                    [MapEntry("NEntry", "TYPE_STRING", "TYPE_INT32") EXCEPT
                        !.field = @ \o << Field("x", 3, "LABEL_OPTIONAL", "TYPE_INT32") >>] >>,
                !.field = <<
                    TypedField("o", 4, "LABEL_OPTIONAL", "TYPE_MESSAGE", <<"", "foo", "M", "T">>),
                    TypedField("n", 3, "LABEL_REPEATED", "TYPE_MESSAGE", <<"", "foo", "M", "NEntry">>),
                    TypedField("r", 2, "LABEL_REPEATED", "TYPE_MESSAGE", <<"", "foo", "M", "T">>),
                    TypedField("m", 1, "LABEL_REPEATED", "TYPE_MESSAGE", <<"", "foo", "M", "MEntry">>) >>],
            MapEntry("B", "TYPE_STRING", "TYPE_INT32") >>]

\* syntax = "proto2"; package foo;
\* message M { optional group G = 1 {
\*                 optional int32 x = 2; optional int32 w = 1;
\*                 optional group H = 3 { optional int32 z = 1; } }
\*             optional int32 a = 2; }
GroupFields ==
    [EmptyFile EXCEPT
        !.syntax = Some("proto2"), !.package = Some(<<"foo">>),
        !.message_type = << [Message("M") EXCEPT
            !.nested_type = << [Message("G") EXCEPT
                !.nested_type = << [Message("H") EXCEPT
                    !.field = << Field("z", 1, "LABEL_OPTIONAL", "TYPE_INT32") >>] >>,
                !.field = <<
                    Field("x", 2, "LABEL_OPTIONAL", "TYPE_INT32"),
                    Field("w", 1, "LABEL_OPTIONAL", "TYPE_INT32"),
                    TypedField("h", 3, "LABEL_OPTIONAL", "TYPE_GROUP",
                               <<"", "foo", "M", "G", "H">>) >>] >>,
            !.field = <<
                Field("a", 2, "LABEL_OPTIONAL", "TYPE_INT32"),
                TypedField("g", 1, "LABEL_OPTIONAL", "TYPE_GROUP", <<"", "foo", "M", "G">>) >>] >>]

\* syntax = "proto2"; package foo;
\* message M { optional group G = 1 { map<string, int32> m = 1; } }
MapInGroup ==
    [EmptyFile EXCEPT
        !.syntax = Some("proto2"), !.package = Some(<<"foo">>),
        !.message_type = << [Message("M") EXCEPT
            !.nested_type = << [Message("G") EXCEPT
                !.nested_type = << MapEntry("MEntry", "TYPE_STRING", "TYPE_INT32") >>,
                !.field = <<
                    TypedField("m", 1, "LABEL_REPEATED", "TYPE_MESSAGE",
                               <<"", "foo", "M", "G", "MEntry">>) >>] >>,
            !.field = <<
                TypedField("g", 1, "LABEL_OPTIONAL", "TYPE_GROUP", <<"", "foo", "M", "G">>) >>] >>]

\* syntax = "proto2"; package foo;
\* message M { message T {}
\*             map<string, int32> m = 1;
\*             optional group G = 2 { optional int32 x = 1; }
\*             optional T t = 3; }
\* as protoc describes it: MEntry and G are nested messages of M
SyntheticTypes ==
    [EmptyFile EXCEPT
        !.syntax = Some("proto2"), !.package = Some(<<"foo">>),
        !.message_type = << [Message("M") EXCEPT
            !.nested_type = <<
                MapEntry("MEntry", "TYPE_STRING", "TYPE_INT32"),
                [Message("G") EXCEPT
                    !.field = << Field("x", 1, "LABEL_OPTIONAL", "TYPE_INT32") >>],
                Message("T") >>,
            !.field = <<
                TypedField("m", 1, "LABEL_REPEATED", "TYPE_MESSAGE",
                           <<"", "foo", "M", "MEntry">>),
                TypedField("g", 2, "LABEL_OPTIONAL", "TYPE_GROUP",
                           <<"", "foo", "M", "G">>),
                TypedField("t", 3, "LABEL_OPTIONAL", "TYPE_MESSAGE",
                           <<"", "foo", "M", "T">>) >>] >>]

\* syntax = "proto3"; package foo; message M {}
\* service Svc { rpc Put(stream M) returns (M);
\*               rpc Get(M) returns (M) { option deprecated = true; } }
DeprecatedMethod ==
    [EmptyFile EXCEPT
        !.syntax = Some("proto3"), !.package = Some(<<"foo">>),
        !.message_type = << Message("M") >>,
        !.service = << [EmptyService EXCEPT
            !.name = "Svc",
            !.method = <<
                [EmptyMethod EXCEPT
                    !.name = "Put", !.client_streaming = TRUE,
                    !.input_type = Some(<<"", "foo", "M">>),
                    !.output_type = Some(<<"", "foo", "M">>)],
                [EmptyMethod EXCEPT
                    !.name = "Get",
                    !.input_type = Some(<<"", "foo", "M">>),
                    !.output_type = Some(<<"", "foo", "M">>),
                    !.options = Some([deprecated |-> Some(TRUE)])] >>] >>]

\* a proto3 message A with the oneof y and the fields a = 1 (oneof_index 0),
\* b = 2 (oneof_index 1) and c = 3 (oneof_index -1): the indices of b and c
\* name no oneof declaration
StrayOneofIndex ==
    [EmptyFile EXCEPT
        !.syntax = Some("proto3"), !.package = Some(<<"foo">>),
        !.message_type = << [Message("A") EXCEPT
            !.field = <<
                Member(Field("a", 1, "LABEL_OPTIONAL", "TYPE_INT32"), 0),
                Member(Field("b", 2, "LABEL_OPTIONAL", "TYPE_INT32"), 1),
                Member(Field("c", 3, "LABEL_OPTIONAL", "TYPE_INT32"), -1) >>,
            !.oneof_decl = << [name |-> "y"] >>] >>]

\* an ENUM-typed field with a default and an (empty) options record
EnumField(name, number, type_name, default_value) ==
    [TypedField(name, number, "LABEL_OPTIONAL", "TYPE_ENUM", type_name) EXCEPT
        !.default_value = Some(default_value),
        !.options = Some(EmptyFieldOptions)]

EnumValue(name, number) == [name |-> name, number |-> number, options |-> None]

\* syntax = "proto2"; package foo;
\* enum Ext { Blue = 0; Red = 2; }
\* message M { enum Color { Green = 1; }
\*             optional Ext c = 1 [default = Red];   (stored as "2")
\*             optional Ext d = 2;                   (default stored as "1")
\*             optional Color e = 3 [default = Green];  (stored as "1")
\*             optional Ext f = 4 [default = Blue]; }   (stored as "Blue")
EnumDefaults ==
    [EmptyFile EXCEPT
        !.syntax = Some("proto2"), !.package = Some(<<"foo">>),
        !.enum_type = << [EmptyEnum EXCEPT
            !.name = "Ext",
            !.value = << EnumValue("Blue", 0), EnumValue("Red", 2) >>] >>,
        !.message_type = << [Message("M") EXCEPT
            !.enum_type = << [EmptyEnum EXCEPT
                !.name = "Color", !.value = << EnumValue("Green", 1) >>] >>,
            !.field = <<
                EnumField("c", 1, <<"", "foo", "Ext">>, "2"),
                EnumField("d", 2, <<"", "foo", "Ext">>, "1"),
                EnumField("e", 3, <<"", "foo", "M", "Color">>, "1"),
                EnumField("f", 4, <<"", "foo", "Ext">>, "Blue") >>] >>]

\* syntax = "proto2"; package foo; import "a.proto";
\* enum Ext { Blue = 0; }
\* message M { optional bar.Ext c = 1; }  with the default stored as "0":
\* bar.Ext is an enum of the imported file
ForeignEnumDefault ==
    [EmptyFile EXCEPT
        !.syntax = Some("proto2"), !.package = Some(<<"foo">>),
        !.dependency = << "a.proto" >>,
        !.enum_type = << Enum("Ext") >>,
        !.message_type = << [Message("M") EXCEPT
            !.field = << EnumField("c", 1, <<"", "bar", "Ext">>, "0") >>] >>]

\* syntax = "proto2"; package foo;
\* message M { optional int32 a = 1 [default = 1];
\*             optional int32 b = 2 [deprecated = true, default = 2];
\*             optional string c = 3 [default = "x"]; }
\* a carries no options record, b and c carry one
FieldDefaults ==
    [EmptyFile EXCEPT
        !.syntax = Some("proto2"), !.package = Some(<<"foo">>),
        !.message_type = << [Message("M") EXCEPT
            !.field = <<
                [Field("a", 1, "LABEL_OPTIONAL", "TYPE_INT32") EXCEPT
                    !.default_value = Some("1")],
                [Field("b", 2, "LABEL_OPTIONAL", "TYPE_INT32") EXCEPT
                    !.default_value = Some("2"),
                    !.options = Some([EmptyFieldOptions EXCEPT !.deprecated = Some(TRUE)])],
                [Field("c", 3, "LABEL_OPTIONAL", "TYPE_STRING") EXCEPT
                    !.default_value = Some("x"),
                    !.options = Some(EmptyFieldOptions)] >>] >>]

\* syntax = "proto3"; package foo;
\* message M { reserved 2, 5 to 7, 9 to max; }
\* enum Ext { Blue = 0; reserved 1, 3 to 4, 6 to max; }
ReservedRanges ==
    [EmptyFile EXCEPT
        !.syntax = Some("proto3"), !.package = Some(<<"foo">>),
        !.message_type = << [Message("M") EXCEPT
            !.reserved_range = << [start |-> 2, end |-> 3], [start |-> 5, end |-> 8],
                                  [start |-> 9, end |-> MaxFieldNumber + 1] >>] >>,
        !.enum_type = << [Enum("Ext") EXCEPT
            !.reserved_range = << [start |-> 1, end |-> 1], [start |-> 3, end |-> 4],
                                  [start |-> 6, end |-> MaxFieldNumber] >>] >>]

\* a file that only imports: the dependency list and the two index lists
ImportFile(dependency, public_dependency, weak_dependency) ==
    [EmptyFile EXCEPT
        !.syntax = Some("proto3"), !.package = Some(<<"foo">>),
        !.dependency = dependency,
        !.public_dependency = public_dependency,
        !.weak_dependency = weak_dependency]

MaxImports == 3

\* dependency lists in every order, one with a path twice
DependencyLists ==
    DistinctSeqs({"a.proto", "b.proto", "c.proto"}, MaxImports)
        \cup { << "a.proto", "a.proto" >> }

\* index lists: in order, out of order, past the end and negative
PublicLists == { <<>>, << 0 >>, << 2, 0 >>, << 7 >>, << -1 >> }

WeakLists == { <<>>, << 1 >>, << 0, 1 >> }

ImportFiles ==
    { ImportFile(d, p, w) :
        d \in DependencyLists, p \in PublicLists, w \in WeakLists }

\* syntax = "proto2"; package foo;
\* message M { option deprecated = true; enum Blue { Blue = 0; }
\*   message T { optional int32 c = 1; reserved 2; }
\*   optional int32 a = 3; oneof y { int32 b = 2; }
\*   extend M { optional int32 x = 100; } extensions 100 to 199;
\*   reserved 5; reserved "z"; }
AllParts ==
    [EmptyFile EXCEPT
        !.syntax = Some("proto2"), !.package = Some(<<"foo">>),
        !.message_type = << [Message("M") EXCEPT
            !.reserved_name = << "z" >>,
            !.reserved_range = << [start |-> 5, end |-> 6] >>,
            !.extension_range = << [start |-> 100, end |-> 200] >>,
            !.extension = << [Field("x", 100, "LABEL_OPTIONAL", "TYPE_INT32") EXCEPT
                                 !.extendee = Some(<<"", "foo", "M">>)] >>,
            !.oneof_decl = << [name |-> "y"] >>,
            !.field = << Member(Field("b", 2, "LABEL_OPTIONAL", "TYPE_INT32"), 0),
                         Field("a", 3, "LABEL_OPTIONAL", "TYPE_INT32") >>,
            !.nested_type = << [Message("T") EXCEPT
                !.reserved_range = << [start |-> 2, end |-> 3] >>,
                !.field = << Field("c", 1, "LABEL_OPTIONAL", "TYPE_INT32") >>] >>,
            !.enum_type = << Enum("Blue") >>,
            !.options = Some([EmptyMessageOptions EXCEPT !.deprecated = Some(TRUE)])] >>]

\* descriptors that exercise the field, oneof, map, group, default and
\* reserved-range rules of the generator
FieldFiles ==
    { ScrambledFields, MapFields, GroupFields, MapInGroup, EnumDefaults,
      ForeignEnumDefault, FieldDefaults, ReservedRanges, SyntheticTypes,
      DeprecatedMethod, StrayOneofIndex, AllParts }

\* the descriptors descriptor_to_proto is called on
GenPool ==
    {GenFile(syntax, ms, es, ss) :
        syntax \in {"proto2", "proto3"},
        ms \in DistinctSeqs({"A", "B", "M", "T"}, MaxTop),
        es \in DistinctSeqs({"Blue", "Ext"}, MaxTop),
        ss \in DistinctSeqs({"Get", "Svc"}, MaxTop)}
    \cup {s.descriptor : s \in {f \in Sources : f.parses}}
    \cup FieldFiles
    \cup ImportFiles

\* normalize_file from the parser's result on: the `?`, then
\* descriptor_to_proto(&descriptor)
NormalizeParsed(p) == IF p.ok THEN Ok(DescriptorToProto(p.val)) ELSE p

\* normalize_file on the content read: the normalized text, or the error
NormalizeFile(content) == NormalizeParsed(ParseProtoToFileDescriptor(content))

\* descriptor_to_proto(&d)
Generate ==
    /\ descriptor = None
    /\ \E d \in GenPool :
          /\ descriptor' = Some(d)
          /\ text' = Some(Ok(DescriptorToProto(d)))
    /\ UNCHANGED << mergeVars, generator, formatted >>

\* the state after normalize_file parsed the text (p) and generated again
NormalizeStep(p) ==
    /\ descriptor' = IF p.ok THEN Some(p.val) ELSE None
    /\ text' = Some(NormalizeParsed(p))

\* normalize_file on the text generated last
Normalize ==
    /\ text # None
    /\ text[1].ok
    /\ NormalizeStep(ParseProtoToFileDescriptor(text[1].val))
    /\ UNCHANGED << mergeVars, generator, formatted >>

NextGen == Generate \/ Normalize

SpecGen == Init /\ [][NextGen]_vars

(***************************************************************************)
(* One TextGenerator used for several format_file calls: the caller builds *)
(* it with TextGenerator::new and hands it one descriptor after the other. *)
(***************************************************************************)
MaxCalls == 2

\* the options a caller builds the generator with
UnsortedOptions ==
    [ indent_size |-> 2, sort_messages |-> FALSE, sort_enums |-> FALSE,
      sort_services |-> FALSE ]

GeneratorOptions == { DefaultOptions, UnsortedOptions }

\* the descriptors the kept generator is called on
ReusePool == FieldFiles \cup { s.descriptor : s \in { x \in Sources : x.parses } }

\* TextGenerator::new(options)
NewTextGenerator ==
    /\ generator = None
    /\ \E o \in GeneratorOptions : generator' = Some(NewGenerator(o))
    /\ formatted' = <<>>
    /\ UNCHANGED << mergeVars, descriptor, text >>

\* generator.format_file(d): the struct it leaves behind and the text returned
FormatCall ==
    /\ generator # None
    /\ Len(formatted) < MaxCalls
    /\ \E d \in ReusePool :
          /\ generator' = Some(FormatFileState(generator[1], d))
          /\ formatted' = Append(formatted, d)
          /\ descriptor' = Some(d)
          /\ text' = Some(Ok(FormatFile(generator[1], d)))
    /\ UNCHANGED mergeVars

NextReuse == NewTextGenerator \/ FormatCall

SpecReuse == Init /\ [][NextReuse]_vars

(***************************************************************************)
(* Properties of merge_by_package (Spec) and of the generator (SpecGen).   *)
(***************************************************************************)
\* the call has returned Ok(results)
Returned == pc = "done" /\ ret # None /\ ret[1].ok

\* the call has returned an error
Failed == pc = "done" /\ ret # None /\ ~ret[1].ok

\* the permutations of 1..n
Perms(n) == {p \in [1..n -> 1..n] : \A i, j \in 1..n : p[i] = p[j] => i = j}

NoWarnings(rs) == \A k \in 1..Len(rs) : rs[k].warnings = <<>>

\* rs and qs give every package the same content and fingerprint
SameOutput(rs, qs) ==
    /\ Len(rs) = Len(qs)
    /\ \A k \in 1..Len(rs) :
          /\ rs[k].package_name = qs[k].package_name
          /\ rs[k].content = qs[k].content
          /\ rs[k].fingerprint = qs[k].fingerprint

\* what the call would have returned with its files in the order p
Reordered(p) == MergeByPackage([i \in 1..Len(files) |-> files[p[i]]])

\* C1: the files of a package group give the same content and fingerprint in
\* whatever order they are passed, as long as no option-conflict warning is
\* produced: a call that returned results without warnings returns the same
\* content and fingerprint for every reordering of its files that is merged
\* without warnings too.
C1_OrderIndependent ==
    (Returned /\ NoWarnings(ret[1].val)) =>
        \A p \in Perms(Len(files)) :
            (Reordered(p).ok /\ NoWarnings(Reordered(p).val))
                => SameOutput(ret[1].val, Reordered(p).val)

\* C2: generating is idempotent: the text generated from a descriptor parses,
\* and generating from what the parser made of it gives the same text again.
C2_Idempotent ==
    (text # None /\ text[1].ok) => NormalizeFile(text[1].val) = text[1]

\* the package names of the files of the call, "" for a file without one
PackagesOfCall == {UnwrapOr(files[i].descriptor.package, <<"">>) : i \in 1..Len(files)}

\* C3: a call that succeeds returns exactly one result for each distinct
\* package name of its files, in strictly ascending order of package_name, and
\* no result at all for no files.
C3_OnePerPackage ==
    Returned =>
        /\ Len(ret[1].val) = Cardinality(PackagesOfCall)
        /\ {ret[1].val[k].package_name : k \in 1..Len(ret[1].val)} = PackagesOfCall
        /\ \A k \in 1..(Len(ret[1].val) - 1) :
              KeyLt(DottedKey(ret[1].val[k].package_name),
                    DottedKey(ret[1].val[k + 1].package_name))
        /\ (files = <<>> => ret[1].val = <<>>)

\* three files of two packages, passed in descending package order, merged
C3_Witness ==
    /\ Returned
    /\ Len(files) = 3
    /\ Len(ret[1].val) = 2
    /\ UnwrapOr(files[1].descriptor.package, <<"">>) = <<"foo">>
    /\ UnwrapOr(files[3].descriptor.package, <<"">>) = <<"">>
    /\ ret[1].val[1].package_name = <<"">>
    /\ ret[1].val[2].package_name = <<"foo">>

\* the three kinds of top-level definitions merge_package_group unions, by
\* the descriptor field that holds them
Kinds == {"message_type", "enum_type", "service"}

KindName(sel) ==
    IF sel = "message_type" THEN "message"
    ELSE IF sel = "enum_type" THEN "enum" ELSE "service"

\* where the files of group define something of kind sel: <<file, position>>
Positions(group, sel) ==
    UNION {{<<i, j>> : j \in 1..Len(group[i][sel])} : i \in 1..Len(group)}

\* how often the definition x occurs in the sequence s
Occurrences(s, x) == Cardinality({i \in 1..Len(s) : s[i] = x})

\* how often the files of group define x as a definition of kind sel
OccurrencesIn(group, sel, x) ==
    Cardinality({p \in Positions(group, sel) : group[p[1]][sel][p[2]] = x})

\* two definitions of kind sel in the files of group share a name
HasDuplicate(group, sel) ==
    \E p, q \in Positions(group, sel) :
        p # q /\ group[p[1]][sel][p[2]].name = group[q[1]][sel][q[2]].name

\* the syntaxes of the files of group, an absent one counted as proto2
Syntaxes(group) ==
    {IF group[i].syntax = None THEN "proto2" ELSE group[i].syntax[1] :
        i \in 1..Len(group)}

\* the loop has just merged a group: its unified descriptor is in merged
GroupMerged == pc = "merge" /\ Len(results) > 0 /\ merged # None

\* the files of the group merged last
LatestGroup == grouped[Len(results)].files

\* the files of the group whose merge made the call fail
FailedGroup == grouped[Len(results) + 1].files

\* the call failed in the loop over the groups
GroupFailed == Failed /\ grouped # <<>>

\* C4: when a group is merged, the top-level messages, enums and services of
\* the unified descriptor are exactly those of the files of the group: every
\* definition of a file is there once, whole (nested contents included), and
\* nothing else is.
C4_UnionOfDefinitions ==
    GroupMerged =>
        \A sel \in Kinds :
            /\ Len(merged[1][sel]) = Cardinality(Positions(LatestGroup, sel))
            /\ \A p \in Positions(LatestGroup, sel) :
                  Occurrences(merged[1][sel], LatestGroup[p[1]][sel][p[2]]) = 1
            /\ \A i \in 1..Len(merged[1][sel]) :
                  OccurrencesIn(LatestGroup, sel, merged[1][sel][i]) = 1

\* a group of two files merged, with messages of both (one of them with a
\* nested message and fields), an enum and a service
C4_Witness ==
    /\ GroupMerged
    /\ Len(LatestGroup) = 2
    /\ LatestGroup[1].message_type # <<>>
    /\ LatestGroup[2].message_type # <<>>
    /\ \E i \in 1..Len(merged[1].message_type) :
          merged[1].message_type[i].nested_type # <<>>
    /\ merged[1].enum_type # <<>>
    /\ merged[1].service # <<>>

\* the error names a kind and a name that two files of group, the ones at
\* the two indices, both define
NamesDuplicate(e, group) ==
    /\ e.prev_idx >= 0 /\ e.prev_idx < e.file_idx /\ e.file_idx < Len(group)
    /\ \E sel \in Kinds :
          /\ e.symbol_kind = KindName(sel)
          /\ \E j \in 1..Len(group[e.prev_idx + 1][sel]) :
                group[e.prev_idx + 1][sel][j].name = e.name
          /\ \E j \in 1..Len(group[e.file_idx + 1][sel]) :
                group[e.file_idx + 1][sel][j].name = e.name

\* C5: for a group whose files agree on the syntax, the merge fails with a
\* duplicate-symbol error exactly when two top-level definitions of the same
\* kind share a name, and the error names the kind, the name and the indices
\* of two files defining it; a name shared by definitions of different kinds
\* causes no such error.
C5_DuplicateSymbol ==
    grouped # <<>> =>
        /\ \A k \in 1..Len(results) :
              Cardinality(Syntaxes(grouped[k].files)) = 1
                  => \A sel \in Kinds : ~HasDuplicate(grouped[k].files, sel)
        /\ (GroupFailed /\ Cardinality(Syntaxes(FailedGroup)) = 1) =>
              /\ (ret[1].err.kind = "DuplicateSymbol")
                     <=> (\E sel \in Kinds : HasDuplicate(FailedGroup, sel))
              /\ ret[1].err.kind = "DuplicateSymbol"
                     => NamesDuplicate(ret[1].err, FailedGroup)

\* a call failed on a second enum B although a message B of the same group,
\* a definition of another kind, had passed
C5_Witness ==
    /\ GroupFailed
    /\ ret[1].err.kind = "DuplicateSymbol"
    /\ ret[1].err.symbol_kind = "enum"
    /\ ret[1].err.name = "B"
    /\ \E i \in 1..Len(FailedGroup) :
          \E j \in 1..Len(FailedGroup[i].message_type) :
              FailedGroup[i].message_type[j].name = "B"

\* C6: the merge of a group fails with a syntax conflict exactly when its
\* files have more than one syntax, an absent syntax counted as proto2;
\* otherwise the unified descriptor and the content carry that one syntax.
C6_SyntaxConsistency ==
    grouped # <<>> =>
        /\ \A k \in 1..Len(results) :
              /\ Cardinality(Syntaxes(grouped[k].files)) = 1
              /\ \A s \in Syntaxes(grouped[k].files) :
                    results[k].content[1].t = <<"syntax", s>>
        /\ GroupMerged => \A s \in Syntaxes(LatestGroup) : merged[1].syntax = Some(s)
        /\ GroupFailed =>
              ((ret[1].err.kind = "SyntaxConflict")
                   <=> Cardinality(Syntaxes(FailedGroup)) > 1)

\* a file without a syntax statement merged with a proto2 file as proto2
C6_Witness ==
    /\ GroupMerged
    /\ \E i \in 1..Len(LatestGroup) : LatestGroup[i].syntax = None
    /\ \E i \in 1..Len(LatestGroup) : LatestGroup[i].syntax = Some("proto2")
    /\ merged[1].syntax = Some("proto2")

\* the files of the call that belong to package p, in the order passed
FilesOfPackage(p) ==
    SelectSeq([i \in 1..Len(files) |-> files[i].descriptor],
              LAMBDA d : UnwrapOr(d.package, <<"">>) = p)

\* C7: all or nothing: when a file of the call does not parse, or the merge
\* of one of its package groups fails (syntax conflict, duplicate symbol,
\* fingerprint failure), the call returns an error and no result for any
\* package.
C7_AllOrNothing ==
    (pc = "done" /\ ret # None) =>
        /\ (\E i \in 1..Len(files) : ~files[i].parses)
              => (~ret[1].ok /\ ret[1].err.kind = "ParseFailure")
        /\ ((\A i \in 1..Len(files) : files[i].parses)
            /\ \E p \in PackagesOfCall : ~MergePackageGroup(p, FilesOfPackage(p)).ok)
              => (~ret[1].ok
                  /\ ret[1].err.kind \in {"SyntaxConflict", "DuplicateSymbol",
                                          "FingerprintFailure"})
        /\ ~ret[1].ok => DOMAIN ret[1] = {"ok", "err"}

\* a call returned an error for its second group after the first was merged
C7_Witness ==
    /\ GroupFailed
    /\ Len(results) >= 1
    /\ ret[1].err.kind = "DuplicateSymbol"

\* C8: the fingerprint of every result returned is the SHA-256 hex digest of
\* the content of that result.
C8_FingerprintOfContent ==
    Returned =>
        \A k \in 1..Len(ret[1].val) :
            ret[1].val[k].fingerprint = Sha256Hex(ret[1].val[k].content)

TopLevelNames(lines, kw) ==
    [i \in 1..Len(SelectSeq(lines, LAMBDA l : l.sp = 0 /\ Len(l.t) = 2 /\ l.t[1] = kw)) |->
        SelectSeq(lines, LAMBDA l : l.sp = 0 /\ Len(l.t) = 2 /\ l.t[1] = kw)[i].t[2]]

\* names is in ascending order, no name twice
Ascending(names) == \A i, j \in 1..Len(names) : i < j => StrLt(names[i], names[j])

\* the names of the definitions ds, as a set
NamesOf(ds) == {ds[i].name : i \in 1..Len(ds)}

\* message m is no map entry; a map entry is never printed as a message
IsPrinted(m) == m.options = None \/ m.options[1].map_entry # Some(TRUE)

\* C10: with the default options the generator emits the top-level messages,
\* the enums and the services each in ascending order of their names,
\* whatever order the descriptor has them in.
C10_SortedByName ==
    (descriptor # None /\ text # None /\ text[1].ok) =>
        /\ Ascending(TopLevelNames(text[1].val, "message"))
        /\ Ascending(TopLevelNames(text[1].val, "enum"))
        /\ Ascending(TopLevelNames(text[1].val, "service"))
        /\ Range(TopLevelNames(text[1].val, "message")) =
               NamesOf(SelectSeq(descriptor[1].message_type, IsPrinted))
        /\ Range(TopLevelNames(text[1].val, "enum")) = NamesOf(descriptor[1].enum_type)
        /\ Range(TopLevelNames(text[1].val, "service")) = NamesOf(descriptor[1].service)

\* text generated from a descriptor whose messages, enums and services are
\* each in descending order
C10_Witness ==
    /\ descriptor # None /\ text # None /\ text[1].ok
    /\ Len(descriptor[1].message_type) >= 2
    /\ StrLt(descriptor[1].message_type[2].name, descriptor[1].message_type[1].name)
    /\ Len(descriptor[1].enum_type) >= 2
    /\ StrLt(descriptor[1].enum_type[2].name, descriptor[1].enum_type[1].name)
    /\ Len(descriptor[1].service) >= 2
    /\ StrLt(descriptor[1].service[2].name, descriptor[1].service[1].name)
    /\ Len(TopLevelNames(text[1].val, "message")) >= 2

(* ------------------ reading the emitted text back ------------------- *)
\* descriptor_to_proto has returned text for descriptor
Generated == descriptor # None /\ text # None /\ text[1].ok

LineKind(l) == IF l.t = <<>> THEN "" ELSE l.t[1]

\* the header line of the block that line j stands in, 0 at top level
Parent(lines, j) ==
    IF lines[j].sp = 0 THEN 0
    ELSE CHOOSE i \in 1..(j - 1) :
            /\ lines[i].sp < lines[j].sp
            /\ \A k \in (i + 1)..(j - 1) : lines[k].sp >= lines[j].sp

\* the lines directly inside the block opened by line j
Children(lines, j) == {k \in (j + 1)..Len(lines) : Parent(lines, k) = j}

MemberKinds == {"field", "map", "group"}

\* the lines of the block of j that print a field
MemberLines(lines, j) == {k \in Children(lines, j) : LineKind(lines[k]) \in MemberKinds}

NumberOfLine(l) == IF LineKind(l) = "group" THEN l.t[4] ELSE l.t[5]

\* line l prints field f: same number, and the field's name (for a group the
\* name of its type, which is what stands after `group`)
Renders(l, f) ==
    /\ LineKind(l) \in MemberKinds
    /\ NumberOfLine(l) = f.number
    /\ IF LineKind(l) = "group"
       THEN l.t[3] = (IF f.type_name # None THEN f.type_name[1][Len(f.type_name[1])]
                      ELSE f.name)
       ELSE l.t[4] = f.name

RECURSIVE PathTo(_, _)
\* the names of the message and group blocks around line j, outermost first,
\* with line j's own name last when j opens a message or a group
PathTo(lines, j) ==
    IF j = 0 THEN <<>>
    ELSE IF LineKind(lines[j]) = "message"
    THEN Append(PathTo(lines, Parent(lines, j)), lines[j].t[2])
    ELSE IF LineKind(lines[j]) = "group"
    THEN Append(PathTo(lines, Parent(lines, j)), lines[j].t[3])
    ELSE PathTo(lines, Parent(lines, j))

RECURSIVE Resolve(_, _)
\* the message reached from the list msgs by the path names, None if the
\* path leaves the descriptor
Resolve(msgs, names) ==
    IF names = <<>> \/ \A i \in 1..Len(msgs) : msgs[i].name # names[1] THEN None
    ELSE IF Len(names) = 1
    THEN Some(msgs[CHOOSE i \in 1..Len(msgs) : msgs[i].name = names[1]])
    ELSE Resolve(msgs[CHOOSE i \in 1..Len(msgs) : msgs[i].name = names[1]].nested_type,
                 Tail(names))

\* the message of the descriptor that the block of line j prints
MessageOfLine(j) == Resolve(descriptor[1].message_type, PathTo(text[1].val, j))

HeadersOf(kind) ==
    {j \in 1..Len(text[1].val) : LineKind(text[1].val[j]) = kind}

\* the fields fs are printed in the block of line j, each on a line of its
\* own, and a field with a smaller number stands on an earlier line
PrintedAscending(j, fs) ==
    /\ \A a \in 1..Len(fs) :
          \E k \in MemberLines(text[1].val, j) : Renders(text[1].val[k], fs[a])
    /\ \A a, b \in 1..Len(fs) :
          fs[a].number < fs[b].number =>
              \A k, n \in MemberLines(text[1].val, j) :
                  Renders(text[1].val[k], fs[a]) /\ Renders(text[1].val[n], fs[b])
                      => k < n

\* the members of the oneof printed by line j of message m
MembersOf(m, j) ==
    SelectSeq(m.field,
        LAMBDA f : /\ f.oneof_index # None
                   /\ f.proto3_optional # Some(TRUE)
                   /\ f.oneof_index[1] + 1 \in 1..Len(m.oneof_decl)
                   /\ m.oneof_decl[f.oneof_index[1] + 1].name = text[1].val[j].t[2])

RegularFieldsOf(m) ==
    SelectSeq(m.field, LAMBDA f : f.oneof_index = None \/ f.proto3_optional = Some(TRUE))

\* C11: in every emitted message block the regular fields (no oneof index, or
\* proto3_optional) stand in ascending field-number order, and in every
\* emitted oneof block the members stand in ascending field-number order,
\* whatever the order of the message's field list
C11_FieldsAscending ==
    Generated =>
        /\ \A j \in HeadersOf("message") :
              /\ MessageOfLine(j) # None
              /\ PrintedAscending(j, RegularFieldsOf(MessageOfLine(j)[1]))
        /\ \A j \in HeadersOf("oneof") :
              /\ MessageOfLine(j) # None
              /\ PrintedAscending(j, MembersOf(MessageOfLine(j)[1], j))
              /\ \A k, n \in MemberLines(text[1].val, j) :
                    k < n => NumberOfLine(text[1].val[k]) < NumberOfLine(text[1].val[n])

\* a message whose field list is out of order, both among its regular fields
\* and among the members of a oneof, has been printed
C11_Witness ==
    /\ Generated
    /\ descriptor[1] = ScrambledFields
    /\ \E j \in HeadersOf("message") :
          /\ Cardinality(MemberLines(text[1].val, j)) = 2
          /\ \E a, b \in 1..Len(MessageOfLine(j)[1].field) :
                /\ a < b
                /\ MessageOfLine(j)[1].field[a].number > MessageOfLine(j)[1].field[b].number
                /\ MessageOfLine(j)[1].field[a].oneof_index = None
                /\ MessageOfLine(j)[1].field[b].proto3_optional = Some(TRUE)
    /\ \E j \in HeadersOf("oneof") : Cardinality(MemberLines(text[1].val, j)) = 3

\* field f of a message is a group whose type is named name
GroupOfName(f, name) ==
    /\ f.type = Some("TYPE_GROUP")
    /\ f.type_name # None
    /\ f.type_name[1][Len(f.type_name[1])] = name

\* the message that declares the message printed by line j, None at top level
DeclaringMessage(j) ==
    IF Parent(text[1].val, j) = 0 THEN None
    ELSE MessageOfLine(Parent(text[1].val, j))

\* C12: synthetic-type suppression: at every depth no message with
\* map_entry = true is printed as a `message` block, and no nested message
\* named by the last type_name component of a group field of its parent
\* message is printed as a `message` block
C12_SyntheticSuppressed ==
    Generated =>
        \A j \in HeadersOf("message") :
            /\ MessageOfLine(j) # None
            /\ \/ MessageOfLine(j)[1].options = None
               \/ MessageOfLine(j)[1].options[1].map_entry # Some(TRUE)
            /\ DeclaringMessage(j) # None =>
                  \A a \in 1..Len(DeclaringMessage(j)[1].field) :
                      ~GroupOfName(DeclaringMessage(j)[1].field[a],
                                   MessageOfLine(j)[1].name)

\* a message with a map-entry nested message, a group nested message and an
\* ordinary nested message has been printed, the ordinary one as a block
C12_Witness ==
    /\ Generated
    /\ descriptor[1] = SyntheticTypes
    /\ \E j \in HeadersOf("message") :
          /\ DeclaringMessage(j) # None
          /\ \E a, b \in 1..Len(DeclaringMessage(j)[1].nested_type) :
                /\ DeclaringMessage(j)[1].nested_type[a].options # None
                /\ DeclaringMessage(j)[1].nested_type[a].options[1].map_entry = Some(TRUE)
                /\ \E c \in 1..Len(DeclaringMessage(j)[1].field) :
                      GroupOfName(DeclaringMessage(j)[1].field[c],
                                  DeclaringMessage(j)[1].nested_type[b].name)

\* the lines that print fields of the message of block j: those directly in
\* the block and those in its oneof blocks
FieldLinesOf(j) ==
    MemberLines(text[1].val, j)
    \cup UNION {MemberLines(text[1].val, o) :
                  o \in {c \in Children(text[1].val, j) :
                            LineKind(text[1].val[c]) = "oneof"}}

\* the nested message of m that the last component of f.type_name names
EntryOf(m, f) ==
    IF f.type_name = None THEN None
    ELSE Resolve(m.nested_type, <<f.type_name[1][Len(f.type_name[1])]>>)

FieldNamed(entry, name) ==
    entry.field[CHOOSE i \in 1..Len(entry.field) : entry.field[i].name = name]

\* field f of message m is a map field
IsMapField(m, f) ==
    /\ f.label = Some("LABEL_REPEATED")
    /\ f.type = Some("TYPE_MESSAGE")
    /\ EntryOf(m, f) # None
    /\ EntryOf(m, f)[1].options # None
    /\ EntryOf(m, f)[1].options[1].map_entry = Some(TRUE)
    /\ Len(EntryOf(m, f)[1].field) = 2
    /\ \E i, k \in 1..2 : /\ EntryOf(m, f)[1].field[i].name = "key"
                          /\ EntryOf(m, f)[1].field[k].name = "value"

\* line l is `map<K, V> ...` with K and V the printed types of the key and
\* value fields of the entry message
MapLineOf(l, entry) ==
    /\ LineKind(l) = "map"
    /\ Some(l.t[2]) = FieldTypeText(FieldNamed(entry, "key"))
    /\ Some(l.t[3]) = FieldTypeText(FieldNamed(entry, "value"))

\* C13: a field is printed as `map<K, V> name = number`, with no label,
\* exactly when it is REPEATED, of TYPE_MESSAGE, and the last component of
\* its type_name names a nested message of the message that declares the
\* field which has map_entry = true and exactly the two fields key and value;
\* K and V are those fields' printed types and the entry message gives no
\* `message` block
C13_MapRendering ==
    Generated =>
        \A j \in HeadersOf("message") \cup HeadersOf("group") :
            MessageOfLine(j) # None =>
                \A a \in 1..Len(MessageOfLine(j)[1].field) :
                    \A k \in FieldLinesOf(j) :
                        Renders(text[1].val[k], MessageOfLine(j)[1].field[a]) =>
                            IF IsMapField(MessageOfLine(j)[1], MessageOfLine(j)[1].field[a])
                            THEN /\ MapLineOf(text[1].val[k],
                                     EntryOf(MessageOfLine(j)[1],
                                             MessageOfLine(j)[1].field[a])[1])
                                 /\ \A h \in HeadersOf("message") :
                                       PathTo(text[1].val, h) #
                                           Append(PathTo(text[1].val, j),
                                                  EntryOf(MessageOfLine(j)[1],
                                                      MessageOfLine(j)[1].field[a])[1].name)
                            ELSE LineKind(text[1].val[k]) # "map"

\* the components of a type name without its leading dot
Components(type_name) == IF type_name[1] = "" THEN Tail(type_name) ELSE type_name

PackagePath(file) ==
    IF file.package = None \/ file.package[1] = <<"">> THEN <<>> ELSE file.package[1]

\* the enums declared where the path rest (messages, then the enum's name)
\* leads: the file's enums for a path of one name, else those of the message
EnumsAt(file, rest) ==
    IF Len(rest) = 1 THEN file.enum_type
    ELSE IF Resolve(file.message_type, SubSeq(rest, 1, Len(rest) - 1)) = None THEN <<>>
    ELSE Resolve(file.message_type, SubSeq(rest, 1, Len(rest) - 1))[1].enum_type

\* the values of the enum of file that type_name designates: the file's
\* package, then the enclosing messages, then the enum's name; <<>> when
\* type_name designates no enum of the file
DesignatedValues(file, type_name) ==
    LET comps == Components(type_name)
        pkg == PackagePath(file)
        rest == SubSeq(comps, Len(pkg) + 1, Len(comps))
        enums == EnumsAt(file, rest)
    IN  IF Len(comps) <= Len(pkg) \/ SubSeq(comps, 1, Len(pkg)) # pkg THEN <<>>
        ELSE IF \A i \in 1..Len(enums) : enums[i].name # rest[Len(rest)] THEN <<>>
        ELSE enums[CHOOSE i \in 1..Len(enums) : enums[i].name = rest[Len(rest)]].value

\* the default to print for the ENUM field f of file
ExpectedEnumDefault(file, f) ==
    LET n == ParseI32(f.default_value[1])
        values == DesignatedValues(file, f.type_name[1])
    IN  IF n # None /\ \E i \in 1..Len(values) : values[i].number = n[1]
        THEN values[CHOOSE i \in 1..Len(values) :
                        /\ values[i].number = n[1]
                        /\ \A k \in 1..(i - 1) : values[k].number # n[1]].name
        ELSE f.default_value[1]

\* the values of the `default` entries printed on a field line
DefaultsOn(l) == {l.t[6][i][3] : i \in {k \in 1..Len(l.t[6]) : l.t[6][k][1] = "default"}}

\* C14: the default printed for an ENUM field whose default_value is the
\* decimal number n of a value of the enum of the current file that its
\* type_name designates is that value's name; if no such enum or value is
\* found, the raw default_value is printed
C14_EnumDefaultResolved ==
    Generated =>
        \A j \in HeadersOf("message") \cup HeadersOf("group") :
            MessageOfLine(j) # None =>
                \A a \in 1..Len(MessageOfLine(j)[1].field) :
                    \A k \in FieldLinesOf(j) :
                        /\ MessageOfLine(j)[1].field[a].type = Some("TYPE_ENUM")
                        /\ MessageOfLine(j)[1].field[a].type_name # None
                        /\ MessageOfLine(j)[1].field[a].default_value # None
                        /\ LineKind(text[1].val[k]) = "field"
                        /\ Renders(text[1].val[k], MessageOfLine(j)[1].field[a])
                        => DefaultsOn(text[1].val[k]) \subseteq
                               {ExpectedEnumDefault(descriptor[1],
                                                    MessageOfLine(j)[1].field[a])}

\* C15: every field that has a default_value and a type is printed with a
\* `default = ...` entry among its options, whether or not the field carries
\* an options record of its own
C15_DefaultPrinted ==
    Generated =>
        \A j \in HeadersOf("message") \cup HeadersOf("group") :
            MessageOfLine(j) # None =>
                \A a \in 1..Len(MessageOfLine(j)[1].field) :
                    \A k \in FieldLinesOf(j) :
                        /\ MessageOfLine(j)[1].field[a].default_value # None
                        /\ MessageOfLine(j)[1].field[a].type # None
                        /\ LineKind(text[1].val[k]) = "field"
                        /\ Renders(text[1].val[k], MessageOfLine(j)[1].field[a])
                        => DefaultsOn(text[1].val[k]) # {}

\* the value a file's options give to key, None when the file has no options
\* record or the record does not set the key
OptionValue(options, key) == IF options = None THEN None ELSE options[1][key]

\* the warning due for file i (1-based) of group on key: the file sets the
\* key to a value other than the merged one
ConflictOn(group, merged_options, i, key) ==
    IF /\ OptionValue(group[i].options, key) # None
       /\ OptionValue(group[i].options, key) # OptionValue(merged_options, key)
    THEN << [file |-> i - 1, option |-> key] >>
    ELSE <<>>

RECURSIVE ExpectedConflicts(_, _, _)
\* the warnings due for the files of group from the i-th on
ExpectedConflicts(group, merged_options, i) ==
    IF i > Len(group) THEN <<>>
    ELSE ConflictOn(group, merged_options, i, "java_package")
         \o ConflictOn(group, merged_options, i, "go_package")
         \o ExpectedConflicts(group, merged_options, i + 1)

\* C16: file options are first-wins: the unified descriptor's options are
\* those of the first file of the group, and every later file that sets
\* java_package or go_package to a value other than the merged one adds a
\* warning naming its index and the option to the group's warnings
C16_FirstWinsWithWarnings ==
    GroupMerged =>
        /\ merged[1].options = LatestGroup[1].options
        /\ results[Len(results)].warnings =
               ExpectedConflicts(LatestGroup, merged[1].options, 2)

\* the import paths that a file of the group marks through the index list it
\* keeps under key (public_dependency or weak_dependency)
MarkedBy(group, key) ==
    UNION {{group[a].dependency[ix + 1] :
               ix \in Range(group[a][key]) \cap (0..(Len(group[a].dependency) - 1))} :
           a \in 1..Len(group)}

\* the index list indices names each position of a path of S in imports, once,
\* and nothing else
IndexesExactly(indices, imports, S) ==
    /\ \A a, b \in 1..Len(indices) : a < b => indices[a] < indices[b]
    /\ Range(indices) = {i - 1 : i \in {k \in 1..Len(imports) : imports[k] \in S}}
    /\ \A a \in 1..Len(indices) : indices[a] \in 0..(Len(imports) - 1)

\* C17: the unified descriptor's dependency list is strictly ascending by
\* path and holds exactly the import paths of the group's files;
\* public_dependency (weak_dependency) holds exactly the indices, in the new
\* list, of the paths that some file marked public (weak), each within the
\* bounds of the list
C17_ImportsMerged ==
    GroupMerged =>
        /\ \A i \in 1..(Len(merged[1].dependency) - 1) :
              StrLt(merged[1].dependency[i], merged[1].dependency[i + 1])
        /\ Range(merged[1].dependency) =
               UNION {Range(LatestGroup[a].dependency) : a \in 1..Len(LatestGroup)}
        /\ IndexesExactly(merged[1].public_dependency, merged[1].dependency,
                          MarkedBy(LatestGroup, "public_dependency"))
        /\ IndexesExactly(merged[1].weak_dependency, merged[1].dependency,
                          MarkedBy(LatestGroup, "weak_dependency"))

\* two files were merged whose import lists overlap, one of them out of
\* order and marking as public a path that has another index in the new list
C17_Witness ==
    /\ GroupMerged
    /\ Len(LatestGroup) = 2
    /\ Len(merged[1].dependency) = 2
    /\ Len(LatestGroup[1].dependency) + Len(LatestGroup[2].dependency) = 3
    /\ merged[1].weak_dependency # <<>>
    /\ merged[1].public_dependency # <<>>
    /\ \E a \in 1..2 :
          /\ LatestGroup[a].public_dependency # <<>>
          /\ LatestGroup[a].public_dependency # merged[1].public_dependency

\* the last number a printed range names; `max` stands for the largest number
\* of either kind (text_gen.rs lines 612 and 1093)
LastOf(range_text) ==
    IF Len(range_text) = 1 THEN range_text[1]
    ELSE IF range_text[2] = "max" THEN MaxFieldNumber
    ELSE range_text[3]

\* a printed range read back as a message's half-open range
ReadHalfOpen(range_text) == [start |-> range_text[1], end |-> LastOf(range_text) + 1]

\* a printed range read back as an enum's inclusive range
ReadInclusive(range_text) == [start |-> range_text[1], end |-> LastOf(range_text)]

\* the `reserved` lines with number ranges in the block of line j
ReservedLines(j) ==
    {k \in Children(text[1].val, j) :
        /\ LineKind(text[1].val[k]) = "reserved"
        /\ text[1].val[k].t[2] = "ranges"}

\* the enum that the block of line j prints, None if the descriptor has none
EnumOfLine(j) ==
    LET enums == IF Parent(text[1].val, j) = 0 THEN descriptor[1].enum_type
                 ELSE IF MessageOfLine(j) = None THEN <<>>
                 ELSE MessageOfLine(j)[1].enum_type
    IN  IF \A i \in 1..Len(enums) : enums[i].name # text[1].val[j].t[2] THEN None
        ELSE Some(enums[CHOOSE i \in 1..Len(enums) :
                            enums[i].name = text[1].val[j].t[2]])

\* the printed list is one range per range of ranges, a lone number exactly
\* for the ranges of one element (given by Single), and Read gives each back
RangesRoundTrip(printed, ranges, Single(_), Read(_)) ==
    /\ Len(printed) = Len(ranges)
    /\ \A i \in 1..Len(ranges) :
          /\ Len(printed[i]) = 1 <=> Single(ranges[i])
          /\ printed[i][1] = ranges[i].start
          /\ Read(printed[i]) = ranges[i]

\* C18: reserved-range symmetry: a message's reserved range [start, end) is
\* printed `start` when it has one element and else `start to end-1`, an
\* enum's reserved range [start, end] is printed `start` when start = end and
\* else `start to end`, so that reading the printed range back with the
\* matching convention, `max` being the largest number, gives the range
C18_ReservedRoundTrip ==
    Generated =>
        /\ \A j \in HeadersOf("message") : \A k \in ReservedLines(j) :
              /\ MessageOfLine(j) # None
              /\ RangesRoundTrip(text[1].val[k].t[3], MessageOfLine(j)[1].reserved_range,
                                 LAMBDA r : r.start + 1 = r.end, ReadHalfOpen)
        /\ \A j \in HeadersOf("enum") : \A k \in ReservedLines(j) :
              /\ EnumOfLine(j) # None
              /\ RangesRoundTrip(text[1].val[k].t[3], EnumOfLine(j)[1].reserved_range,
                                 LAMBDA r : r.start = r.end, ReadInclusive)

\* a message and an enum have been printed, each with a one-element range, a
\* longer range and a range up to the largest number
C18_Witness ==
    /\ Generated
    /\ \E j \in HeadersOf("message") : \E k \in ReservedLines(j) :
          {Len(text[1].val[k].t[3][i]) : i \in 1..Len(text[1].val[k].t[3])} = {1, 2, 3}
    /\ \E j \in HeadersOf("enum") : \E k \in ReservedLines(j) :
          /\ {Len(text[1].val[k].t[3][i]) : i \in 1..Len(text[1].val[k].t[3])} = {1, 2, 3}
          /\ \E i \in 1..Len(EnumOfLine(j)[1].reserved_range) :
                EnumOfLine(j)[1].reserved_range[i].end = MaxFieldNumber

\* C19: every field printed inside a `oneof` block is printed with no label
\* (no `optional`, `required` or `repeated` before its type), in proto2 files
\* as in proto3 files
C19_OneofMembersUnlabelled ==
    Generated =>
        \A j \in HeadersOf("oneof") :
            \A k \in MemberLines(text[1].val, j) :
                /\ LineKind(text[1].val[k]) \in {"field", "group"}
                /\ text[1].val[k].t[2] = ""

\* the message block or group body of line j prints each field of fs once, as
\* a map line exactly for the map fields of the message m that declares them
BodyPrints(j, m, fs) ==
    \A a \in 1..Len(fs) :
        /\ \E k \in MemberLines(text[1].val, j) : Renders(text[1].val[k], fs[a])
        /\ \A k \in MemberLines(text[1].val, j) :
              Renders(text[1].val[k], fs[a]) =>
                  (LineKind(text[1].val[k]) = "map" <=> IsMapField(m, fs[a]))

\* C20: for every TYPE_GROUP field declared in a message, at any depth (also
\* when the message is itself the synthetic message of an enclosing group),
\* the group body holds the fields of the nested message of that message
\* named by the last component of the field's type_name, printed by the same
\* field rules: a map or group field of the body is resolved against the
\* group's own message
C20_GroupBody ==
    Generated =>
        \A j \in HeadersOf("group") :
            /\ MessageOfLine(j) # None
            /\ BodyPrints(j, MessageOfLine(j)[1], MessageOfLine(j)[1].field)
            /\ \A k \in MemberLines(text[1].val, j) :
                  \E a \in 1..Len(MessageOfLine(j)[1].field) :
                      Renders(text[1].val[k], MessageOfLine(j)[1].field[a])

\* C21: the fields printed inside a group body follow the ordering rule of a
\* message's fields: they stand in ascending field-number order, whatever
\* their order in the group's synthetic nested message
C21_GroupBodyAscending ==
    Generated =>
        \A j \in HeadersOf("group") :
            \A k, n \in MemberLines(text[1].val, j) :
                k < n => NumberOfLine(text[1].val[k]) < NumberOfLine(text[1].val[n])

\* the service of the descriptor that the block of line j prints
ServiceOfLine(j) ==
    descriptor[1].service[CHOOSE i \in 1..Len(descriptor[1].service) :
                              descriptor[1].service[i].name = text[1].val[j].t[2]]

\* the method of service svc that the rpc line l prints
MethodOfRpc(svc, l) ==
    svc.method[CHOOSE i \in 1..Len(svc.method) : svc.method[i].name = l.t[2]]

IsDeprecated(method) ==
    method.options # None /\ method.options[1].deprecated = Some(TRUE)

\* the `rpc` lines of the service block of line j
RpcLines(j) ==
    {k \in Children(text[1].val, j) : LineKind(text[1].val[k]) = "rpc"}

\* C22: a method whose options have deprecated = true is printed as its
\* `rpc` head followed by the block `{ option deprecated = true; }` with no
\* `;` after the block; a method without that option is printed with a
\* trailing `;` and no block
C22_DeprecatedMethodBlock ==
    Generated =>
        \A j \in HeadersOf("service") : \A k \in RpcLines(j) :
            IF IsDeprecated(MethodOfRpc(ServiceOfLine(j), text[1].val[k]))
            THEN /\ text[1].val[k].t[Len(text[1].val[k].t)] = "{"
                 /\ text[1].val[k + 1].t = <<"option", "deprecated", "", "true">>
                 /\ text[1].val[k + 2].t = <<"}">>
            ELSE /\ text[1].val[k].t[Len(text[1].val[k].t)] = ";"
                 /\ Children(text[1].val, k) = {}

\* the symbol d printed for the default of field f of file is sound: f's
\* default is a number and d names a value with that number in the enum of
\* file whose fully qualified name is f.type_name
SoundSymbol(file, f, d) ==
    /\ ParseI32(f.default_value[1]) # None
    /\ \E i \in 1..Len(DesignatedValues(file, f.type_name[1])) :
          /\ DesignatedValues(file, f.type_name[1])[i].name = d
          /\ DesignatedValues(file, f.type_name[1])[i].number =
                 ParseI32(f.default_value[1])[1]

\* C23: soundness of enum-name resolution: whenever a numeric enum default is
\* replaced by a symbol, the symbol names a value with that number in the enum
\* whose fully qualified name (the file's package, the enclosing messages, the
\* enum's name) is the field's type_name; a type_name that starts otherwise
\* than with the file's package, or whose enum is not declared where the path
\* leads, is not resolved and the raw number is printed
C23_EnumResolutionSound ==
    Generated =>
        \A j \in HeadersOf("message") \cup HeadersOf("group") :
            MessageOfLine(j) # None =>
                \A a \in 1..Len(MessageOfLine(j)[1].field) :
                    \A k \in FieldLinesOf(j) :
                        /\ MessageOfLine(j)[1].field[a].type = Some("TYPE_ENUM")
                        /\ MessageOfLine(j)[1].field[a].type_name # None
                        /\ MessageOfLine(j)[1].field[a].default_value # None
                        /\ LineKind(text[1].val[k]) = "field"
                        /\ Renders(text[1].val[k], MessageOfLine(j)[1].field[a])
                        => \A d \in DefaultsOn(text[1].val[k]) :
                               \/ d = MessageOfLine(j)[1].field[a].default_value[1]
                               \/ SoundSymbol(descriptor[1],
                                              MessageOfLine(j)[1].field[a], d)

\* C24: no field is lost or duplicated: for every emitted message each entry
\* of its field list is printed exactly once, among the regular fields or in
\* one oneof block, for every value of oneof_index and proto3_optional (also
\* a oneof_index that is negative or not below the number of oneof
\* declarations)
C24_EveryFieldOnce ==
    Generated =>
        \A j \in HeadersOf("message") :
            MessageOfLine(j) # None =>
                \A a \in 1..Len(MessageOfLine(j)[1].field) :
                    Cardinality({k \in FieldLinesOf(j) :
                        Renders(text[1].val[k], MessageOfLine(j)[1].field[a])}) = 1

\* the content holds the line `option <key> = "<value>";`
ContentSetsOption(content, key, value) ==
    \E k \in 1..Len(content) :
        content[k].t = <<"option", key, "\"", EscapeString(value)>>

\* C25: whenever the merge of a group gives a java_package (go_package)
\* conflict warning, the unified descriptor and the content of that group
\* hold a java_package (go_package) option whose value is the one the first
\* file of the group sets: the first occurrence the warning speaks of
C25_WarningHasFirstOccurrence ==
    GroupMerged =>
        \A w \in 1..Len(results[Len(results)].warnings) :
            /\ OptionValue(LatestGroup[1].options,
                           results[Len(results)].warnings[w].option) # None
            /\ OptionValue(merged[1].options, results[Len(results)].warnings[w].option)
                   = OptionValue(LatestGroup[1].options,
                                 results[Len(results)].warnings[w].option)
            /\ ContentSetsOption(results[Len(results)].content,
                   results[Len(results)].warnings[w].option,
                   OptionValue(LatestGroup[1].options,
                               results[Len(results)].warnings[w].option)[1])

\* the descriptors of the files of the call, in input order
InputDescriptors == [i \in 1..Len(files) |-> files[i].descriptor]

\* the warning w of the result r names, by its position in the input, a file
\* of the result's package that sets the option
WarningNamesInput(r, w) ==
    /\ w.file \in 0..(Len(files) - 1)
    /\ UnwrapOr(files[w.file + 1].descriptor.package, <<"">>) = r.package_name
    /\ OptionValue(files[w.file + 1].descriptor.options, w.option) # None

\* C26: the file indices named in a duplicate-symbol error and in an
\* option-conflict warning are the zero-based positions of the files in the
\* input of merge_by_package, the numbering of the parse-failure messages,
\* also when files of other packages precede them in the input
C26_IndicesAreInputPositions ==
    /\ (Failed /\ ret[1].err.kind = "DuplicateSymbol")
           => NamesDuplicate(ret[1].err, InputDescriptors)
    /\ Returned =>
           \A k \in 1..Len(ret[1].val) :
               \A w \in 1..Len(ret[1].val[k].warnings) :
                   WarningNamesInput(ret[1].val[k], ret[1].val[k].warnings[w])

AllParse == \A i \in 1..Len(files) : files[i].parses

\* what makes the merge of group fail before any text is generated: a syntax
\* conflict, else a duplicate message, else a duplicate enum, else a
\* duplicate service; kind "none" when nothing does
ExpectedProblem(group) ==
    IF Cardinality(Syntaxes(group)) > 1
    THEN [kind |-> "SyntaxConflict", symbol_kind |-> ""]
    ELSE IF HasDuplicate(group, "message_type")
    THEN [kind |-> "DuplicateSymbol", symbol_kind |-> "message"]
    ELSE IF HasDuplicate(group, "enum_type")
    THEN [kind |-> "DuplicateSymbol", symbol_kind |-> "enum"]
    ELSE IF HasDuplicate(group, "service")
    THEN [kind |-> "DuplicateSymbol", symbol_kind |-> "service"]
    ELSE [kind |-> "none", symbol_kind |-> ""]

\* the error e reports the problem p
Reports(e, p) ==
    /\ e.kind = p.kind
    /\ p.kind = "DuplicateSymbol" => e.symbol_kind = p.symbol_kind

\* C27: order of checks in merge_by_package: every file is parsed before any
\* group is merged, so a parse failure is the error reported even when a
\* group has a syntax conflict or a duplicate symbol; the groups are merged
\* in ascending package-name order and the first failing group gives the
\* error; within a group a syntax conflict is reported before a duplicate
\* symbol, a duplicate message before a duplicate enum before a duplicate
\* service
C27_OrderOfChecks ==
    /\ pc \in {"group", "merge"} => AllParse
    /\ (Failed /\ ~AllParse) =>
          /\ ret[1].err.kind = "ParseFailure"
          /\ ~files[ret[1].err.file + 1].parses
          /\ \A i \in 1..ret[1].err.file : files[i].parses
    /\ \A k \in 1..(Len(grouped) - 1) :
          KeyLt(DottedKey(grouped[k].package_name),
                DottedKey(grouped[k + 1].package_name))
    /\ GroupFailed =>
          /\ \A k \in 1..Len(results) :
                ExpectedProblem(grouped[k].files).kind = "none"
          /\ IF ExpectedProblem(FailedGroup).kind = "none"
             THEN ret[1].err.kind = "FingerprintFailure"
             ELSE Reports(ret[1].err, ExpectedProblem(FailedGroup))

\* a call failed on a group that has both a duplicate enum and a duplicate
\* service, and the error reported is the duplicate enum
C27_Witness ==
    /\ GroupFailed
    /\ HasDuplicate(FailedGroup, "enum_type")
    /\ HasDuplicate(FailedGroup, "service")
    /\ ret[1].err.kind = "DuplicateSymbol"
    /\ ret[1].err.symbol_kind = "enum"

\* C28: a TextGenerator keeps no state between calls: whenever format_file
\* has returned, the indent level of the generator is 0 and its
\* current_message is none, and the text the call returned for its
\* descriptor is the text a fresh generator of the same options returns,
\* whatever descriptors the generator formatted before.
C28_NoStateKept ==
    (generator # None /\ formatted # <<>>) =>
        /\ generator[1].indent_level = 0
        /\ generator[1].current_message = None
        /\ text = Some(Ok(FormatFile(NewGenerator(generator[1].options),
                                     formatted[Len(formatted)])))

\* a generator that formatted the file with groups and nested messages and
\* then, kept, a different file with map fields
C28_Witness ==
    /\ generator # None
    /\ formatted = << GroupFields, MapFields >>
    /\ text = Some(Ok(DescriptorToProto(MapFields)))
    /\ text # Some(Ok(DescriptorToProto(GroupFields)))

\* the import lines of the emitted text, in the order they stand
ImportLinesOf(lines) == SelectSeq(lines, LAMBDA l : LineKind(l) = "import")

\* the keyword the dependency at list position i (from 1) is to be emitted
\* with: public wins over weak
DeclaredKind(file, i) ==
    IF (i - 1) \in Range(file.public_dependency) THEN "public"
    ELSE IF (i - 1) \in Range(file.weak_dependency) THEN "weak"
    ELSE ""

KindRank(kind) == CASE kind = "" -> 0 [] kind = "public" -> 1 [] kind = "weak" -> 2

\* C29: every entry of the dependency list is emitted exactly once, as
\* `import`, `import public` or `import weak` according to the index lists,
\* and the emitted import lines stand in ascending order of the pair
\* (kind rank, path), rank 0 for normal, 1 for public, 2 for weak, whatever
\* the order of the dependency list.
C29_ImportOrder ==
    Generated =>
        LET file == descriptor[1]
            imports == ImportLinesOf(text[1].val)
            n == Len(file.dependency)
        IN  /\ Len(imports) = n
            /\ \E at \in [1..n -> 1..n] :
                  /\ \A i, j \in 1..n : at[i] = at[j] => i = j
                  /\ \A i \in 1..n :
                        imports[at[i]].t =
                            << "import", DeclaredKind(file, i), file.dependency[i] >>
            /\ \A i, j \in 1..n :
                  i < j =>
                      \/ KindRank(imports[i].t[2]) < KindRank(imports[j].t[2])
                      \/ /\ imports[i].t[2] = imports[j].t[2]
                         /\ Rank(imports[i].t[3]) <= Rank(imports[j].t[3])

\* three dependencies listed in descending path order, the first public, the
\* second weak: the two public lines by path, then the weak one
C29_Witness ==
    /\ Generated
    /\ descriptor[1].dependency = << "c.proto", "b.proto", "a.proto" >>
    /\ descriptor[1].public_dependency = << 2, 0 >>
    /\ descriptor[1].weak_dependency = << 1 >>
    /\ ImportLinesOf(text[1].val) =
          << [sp |-> 0, t |-> << "import", "public", "a.proto" >>],
             [sp |-> 0, t |-> << "import", "public", "c.proto" >>],
             [sp |-> 0, t |-> << "import", "weak", "b.proto" >>] >>

\* line l of the block of message m prints one of m's extensions (a field
\* line whose name is that of an extension of m and of no field of m)
PrintsExtension(m, l) ==
    /\ LineKind(l) \in MemberKinds
    /\ \E e \in Range(m.extension) : Renders(l, e)
    /\ \A f \in Range(m.field) : ~Renders(l, f)

\* the place in the fixed order of the part of message m that line l opens
PartRank(m, l) ==
    CASE LineKind(l) = "option" -> 0
      [] LineKind(l) = "enum" -> 1
      [] LineKind(l) = "message" -> 2
      [] LineKind(l) \in MemberKinds -> IF PrintsExtension(m, l) THEN 5 ELSE 3
      [] LineKind(l) = "oneof" -> 4
      [] LineKind(l) = "extensions" -> 6
      [] LineKind(l) = "reserved" -> IF l.t[2] = "ranges" THEN 7 ELSE 8

\* the lines directly inside the block of j that open a part (neither a
\* closing brace nor an empty line)
PartLines(lines, j) ==
    {k \in Children(lines, j) : LineKind(lines[k]) \notin {"", "}"}}

\* C30: inside every emitted message the parts stand in the fixed order
\* message options, nested enums, nested messages, regular fields, oneof
\* blocks, extensions declared in the message, extension ranges, reserved
\* number ranges, reserved names: no part of an earlier kind stands after a
\* part of a later kind.
C30_PartsInOrder ==
    Generated =>
        \A j \in HeadersOf("message") :
            MessageOfLine(j) # None =>
                \A a, b \in PartLines(text[1].val, j) :
                    a < b => PartRank(MessageOfLine(j)[1], text[1].val[a])
                                 <= PartRank(MessageOfLine(j)[1], text[1].val[b])

\* a printed message that has a part of every one of the nine kinds
C30_Witness ==
    /\ Generated
    /\ \E j \in HeadersOf("message") :
          /\ MessageOfLine(j) # None
          /\ { PartRank(MessageOfLine(j)[1], text[1].val[k]) :
                 k \in PartLines(text[1].val, j) } = 0..8

====
